---- MODULE Spec2Model ----
(***************************************************************************)
(* A model of the multitrack audio visualizer: the waveform extractor of   *)
(* AudioTrack, the compositor of WaveformRenderer, the offline frame loop  *)
(* of VideoExporter and the mixer of CLIAudioEngine.                       *)
(*                                                                         *)
(* Numbers.  JavaScript numbers are IEEE-754 binary64.  The model keeps    *)
(* every quantity an exact rational and models the rounding of binary64    *)
(* where the code turns a number into an index with Math.floor/Math.ceil   *)
(* (FloorMulQuot, CeilMulQuot): there a rounding error of one unit in the  *)
(* last place becomes a whole sample, column or frame.  Times are whole    *)
(* multiples of 1/TicksPerSecond second and sample rates are integers, so  *)
(* that the sums and products of times and rates are exact in binary64.    *)
(* Sample values are multiples of 1/FullScale; waveform values are         *)
(* multiples of 1/WaveUnit, which every moving average of at most          *)
(* 1 + 2*MaxSmoothing such values is as well.                              *)
(***************************************************************************)
EXTENDS Integers, Sequences, FiniteSets, TLC

VARIABLES
  track,        \* the AudioTrack under test of the extractor
  call,         \* <<>> or <<the arguments of the extractor call made>>
  waveform,     \* the buffer that call returned
  spectrum,     \* <<>> or <<the buffer a spectrum call returned>>
  tracks,       \* AudioEngine.tracks, the array that getTracks() hands out
  renderer,     \* a WaveformRenderer: its canvas, 2D context and RenderContext
  frame,        \* <<>> or <<the arguments of the last render() on renderer>>
  exporter,     \* a VideoExporter: the locals of captureFrames and where it is
  log,          \* what the exporter and the page handlers did, oldest first
  mixed,        \* <<>> or <<what CLIAudioEngine.mixTracks() returned>>
  wav,          \* <<>> or <<the bytes a WAV encoder returned>>
  loop,         \* <<>> or <<a RenderLoop, the clock and the animation frames due>>
  cli,          \* <<>> or <<a run of the command line: its input and how far it got>>
  engine,       \* <<>> or <<the playback state of AudioEngine and its audio nodes>>
  presetManager, \* <<>> or <<a PresetManager, localStorage and what the last call did>>
  exportUI      \* <<>> or <<the export panel, its VideoExporter and its worker>>

extractVars == <<track, call, waveform, spectrum>>

renderVars == <<tracks, renderer, frame>>

exportVars == <<exporter, log>>

\* the state of the parts that the extractor, the compositor, the exporters and
\* the mixer never touch
uiVars == <<presetManager, exportUI>>

UiIdle == presetManager = <<>> /\ exportUI = <<>>

restVars == <<wav, loop, cli, engine, uiVars>>

RestIdle == wav = <<>> /\ loop = <<>> /\ cli = <<>> /\ engine = <<>> /\ UiIdle

coreVars == <<extractVars, renderVars, exportVars, mixed>>

vars == <<track, call, waveform, spectrum, tracks, renderer, frame, exporter, log, mixed,
          restVars>>

(***************************************************************************)
(* Bounds of the model.                                                    *)
(***************************************************************************)
MaxLen == 15            \* samples per channel of a long track
MaxShortLen == 4        \* samples per channel of a short track
MaxTime == 8            \* largest currentTime, in ticks
TicksPerSecond == 2     \* time grid
FullScale == 28         \* the sample value 1.0, in sample units

SampleRates == {1, 5}
WindowDurations == {2, 6}             \* in ticks
TargetWidths == {1, 2, 3, 11}

MaxSmoothing == 5

Null == "null"

(***************************************************************************)
(* Arithmetic helpers.                                                     *)
(***************************************************************************)
Abs(x) == IF x < 0 THEN -x ELSE x

Min(a, b) == IF a < b THEN a ELSE b

Max(a, b) == IF a > b THEN a ELSE b

RECURSIVE Pow2(_)
Pow2(e) == IF e = 0 THEN 1 ELSE 2 * Pow2(e - 1)

\* 2^e modulo d, by squaring
RECURSIVE Pow2Mod(_, _)
Pow2Mod(e, d) ==
  IF e = 0 THEN 1 % d
  ELSE LET h == Pow2Mod(e \div 2, d)
       IN (((h * h) % d) * (IF e % 2 = 1 THEN 2 ELSE 1)) % d

RECURSIVE FloorLog2(_)
FloorLog2(a) == IF a < 2 THEN 0 ELSE 1 + FloorLog2(a \div 2)

\* The j with 2^j <= n/d < 2^(j+1), for n, d > 0.
RECURSIVE RatioLog2Up(_, _, _)
RatioLog2Up(n, d, j) == IF n >= 2 * d * Pow2(j) THEN RatioLog2Up(n, d, j + 1) ELSE j

RECURSIVE RatioLog2Down(_, _, _)
RatioLog2Down(n, d, j) == IF n * Pow2(j) < d THEN RatioLog2Down(n, d, j + 1) ELSE -j

RatioLog2(n, d) == IF n >= d THEN RatioLog2Up(n, d, 0) ELSE RatioLog2Down(n, d, 1)

RECURSIVE Gcd(_, _)
Gcd(a, b) == IF b = 0 THEN a ELSE Gcd(b, a % b)

Lcm(a, b) == (a \div Gcd(a, b)) * b

RECURSIVE LcmUpTo(_)
LcmUpTo(n) == IF n <= 1 THEN 1 ELSE Lcm(LcmUpTo(n - 1), n)

(***************************************************************************)
(* binary64.  For integers k, n >= 0 and d > 0 the code computes           *)
(* k * (n / d): the quotient is rounded to 53 bits, the product is rounded *)
(* again.  When d does not divide k*n the result lies strictly between two *)
(* integers and floor and ceil are those of the exact value.  When it      *)
(* does, the exact value is the integer A = k*n/d and the computed one is  *)
(* A, the double below A or the double above A: MulQuotError is -1, 0, 1.  *)
(*   r     = remainder of the 53-bit quotient, n * 2^e = M*d + r           *)
(*   up    = the quotient was rounded up (to nearest, ties to even)        *)
(*   the product is off by k*r/(d*2^e) below or k*(d-r)/(d*2^e) above; it  *)
(*   rounds back to A unless that exceeds half the spacing of the doubles  *)
(*   next to A, 2^(m-53) (2^(m-54) just below a power of two A = 2^m).     *)
(***************************************************************************)
ExceedsHalfUlp(a, j, shift, d, m) ==
  LET s == j + shift
  IN IF s >= 0 THEN a * Pow2(s) > d * Pow2(m)
               ELSE a > d * Pow2(m) * Pow2(-s)

MulQuotError(k, n, d) ==
  IF k = 0 \/ n = 0 THEN 0
  ELSE LET A == (k * n) \div d
           j == RatioLog2(n, d)
           e == 52 - j
           r == (n * Pow2Mod(e, d)) % d
           odd == (n * Pow2Mod(e, 2 * d)) % (2 * d) >= d
           up == 2 * r > d \/ (2 * r = d /\ odd)
           m == FloorLog2(A)
       IN IF r = 0 THEN 0
          ELSE IF up
               THEN IF ExceedsHalfUlp(k * (d - r), j, 1, d, m) THEN 1 ELSE 0
               ELSE IF ExceedsHalfUlp(k * r, j, IF A = Pow2(m) THEN 2 ELSE 1, d, m)
                    THEN -1 ELSE 0

\* Math.floor(k * (n / d))
FloorMulQuot(k, n, d) ==
  IF (k * n) % d # 0 THEN (k * n) \div d
  ELSE (k * n) \div d + (IF MulQuotError(k, n, d) < 0 THEN -1 ELSE 0)

\* Math.ceil(k * (n / d))
CeilMulQuot(k, n, d) ==
  IF (k * n) % d # 0 THEN (k * n) \div d + 1
  ELSE (k * n) \div d + (IF MulQuotError(k, n, d) > 0 THEN 1 ELSE 0)

(***************************************************************************)
(* AudioTrack.  A track record holds the decoded buffer (channels, each a  *)
(* sequence of sample values, and the sample rate) and the fields of the   *)
(* object.  Sequence index j + 1 is the code's index j.                    *)
(***************************************************************************)
SmoothDen == LcmUpTo(1 + 2 * MaxSmoothing)

WaveUnit == FullScale * SmoothDen       \* the waveform value 1.0

GetChannelData(t, c) == t.channels[c + 1]

\* the values f[1], f[2], ... stored one by one into a new array
ArrayOf(f) == f \o <<>>

\* an array the allocation left unset: it holds whatever the memory held
NewFloat32ArrayUninitialised(length) == ArrayOf([i \in 1..length |-> WaveUnit])

\* new Float32Array(length): length zeros
NewFloat32Array(length) == ArrayOf([i \in 1..length |-> 0])

BufferLength(t) == Len(t.channels[1])

NumberOfChannels(t) == Len(t.channels)

\* Math.floor(time * sampleRate) for a time on the grid
TimeToSample(ticks, sampleRate) == (ticks * sampleRate) \div TicksPerSecond

\* windowDuration < this.duration, the duration being length / sampleRate
WindowShorterThanTrack(t, windowDuration) ==
  windowDuration * t.sampleRate < BufferLength(t) * TicksPerSecond

\* the window always ends at currentTime, also before windowDuration has elapsed
StartSampleNoStartup(t, currentTime, windowDuration) ==
  TimeToSample(currentTime - windowDuration, t.sampleRate)

StartSample(t, currentTime, windowDuration) ==
  IF currentTime < windowDuration
  THEN 0
  ELSE TimeToSample(currentTime - windowDuration, t.sampleRate)

\* Math.min(Math.floor(endTime * sampleRate), channelData.length); in the
\* startup window endTime is Math.min(windowDuration, this.duration), and the
\* duration is the double length / sampleRate
EndSample(t, currentTime, windowDuration) ==
  LET floorEnd ==
        IF currentTime < windowDuration
        THEN IF WindowShorterThanTrack(t, windowDuration)
             THEN TimeToSample(windowDuration, t.sampleRate)
             ELSE FloorMulQuot(t.sampleRate, BufferLength(t), t.sampleRate)
        ELSE TimeToSample(currentTime, t.sampleRate)
  IN Min(floorEnd, BufferLength(t))

\* the bucket of pixel i: sample indices start .. end - 1
BucketStart(startSample, totalSamples, targetWidth, i) ==
  startSample + FloorMulQuot(i, totalSamples, targetWidth)

BucketEnd(startSample, endSample, totalSamples, targetWidth, i) ==
  Min(startSample + FloorMulQuot(i + 1, totalSamples, targetWidth), endSample)

\* the loop "for j = start; j < end": the largest |channelData[j]|, from max = 0
RECURSIVE PeakFrom(_, _, _, _)
PeakFrom(channelData, j, end, max) ==
  IF j >= end THEN max
  ELSE LET abs == IF j >= 0 /\ j < Len(channelData) THEN Abs(channelData[j + 1]) ELSE 0
       IN PeakFrom(channelData, j + 1, end, IF abs > max THEN abs ELSE max)

BucketPeak(channelData, start, end) == PeakFrom(channelData, start, end, 0)

\* applySmoothingFilter, the loop "for j = -halfWindow; j <= halfWindow": the
\* sum and the count of the in-bounds values original[i + j]
RECURSIVE WindowSum(_, _, _, _)
WindowSum(original, i, j, halfWindow) ==
  IF j > halfWindow THEN <<0, 0>>
  ELSE LET rest == WindowSum(original, i, j + 1, halfWindow)
           index == i + j
       IN IF index >= 0 /\ index < Len(original)
          THEN <<original[index + 1] + rest[1], 1 + rest[2]>>
          ELSE rest

\* the sum of the window, not divided by the count
SmoothedAtSumOnly(original, i, level) ==
  WindowSum(original, i, -((1 + level * 2) \div 2), (1 + level * 2) \div 2)[1]

SmoothedAt(original, i, level) ==
  LET halfWindow == (1 + level * 2) \div 2
      sc == WindowSum(original, i, -halfWindow, halfWindow)
  IN IF sc[2] > 0 THEN sc[1] \div sc[2] ELSE original[i + 1]

ApplySmoothingFilter(wf, level) ==
  ArrayOf([i \in 1..Len(wf) |-> SmoothedAt(wf, i - 1, level)])

GetWaveformDataForTimeWindow(t, currentTime, windowDuration, targetWidth, smoothingLevel) ==
  LET channelData == GetChannelData(t, 0)
      startSample == StartSample(t, currentTime, windowDuration)
      endSample == EndSample(t, currentTime, windowDuration)
      totalSamples == endSample - startSample
      peaks == ArrayOf([i \in 1..targetWidth |->
                  SmoothDen *
                  BucketPeak(channelData,
                             BucketStart(startSample, totalSamples, targetWidth, i - 1),
                             BucketEnd(startSample, endSample, totalSamples, targetWidth, i - 1))])
  IN IF totalSamples <= 0 THEN NewFloat32Array(targetWidth)
     ELSE IF smoothingLevel > 0 THEN ApplySmoothingFilter(peaks, smoothingLevel)
     ELSE peaks

\* getWaveformDataForTimeWindow assigns no field of the track
TrackAfterGetWaveform(t) == t

(***************************************************************************)
(* Exact rationals <<numerator, denominator>> in lowest terms, denominator *)
(* positive: the pixel coordinates of the canvas.                          *)
(***************************************************************************)
Rat(n, d) == LET g == Gcd(Abs(n), d) IN <<n \div g, d \div g>>

RAdd(a, b) ==
  LET l == Lcm(a[2], b[2])
  IN Rat(a[1] * (l \div a[2]) + b[1] * (l \div b[2]), l)

RSub(a, b) == RAdd(a, <<-b[1], b[2]>>)

RMul(a, b) ==
  LET g1 == Gcd(Abs(a[1]), b[2])
      g2 == Gcd(Abs(b[1]), a[2])
  IN <<(a[1] \div g1) * (b[1] \div g2), (a[2] \div g2) * (b[2] \div g1)>>

RLess(a, b) ==
  LET l == Lcm(a[2], b[2])
  IN a[1] * (l \div a[2]) < b[1] * (l \div b[2])

RLeq(a, b) == ~RLess(b, a)

(***************************************************************************)
(* ColorManager and the colours of the canvas.  A style is the colour the  *)
(* canvas parses from the string assigned: <<red, green, blue, alpha>>,    *)
(* the alpha in percent.                                                   *)
(***************************************************************************)
DefaultPalette == <<"#FF6B6B", "#4ECDC4", "#45B7D1">>

\* parseInt(.., 16) of the three pairs of hex digits
HexPairs ==
  [hex \in {DefaultPalette[i] : i \in 1..Len(DefaultPalette)} |->
     CASE hex = "#FF6B6B" -> <<255, 107, 107>>
       [] hex = "#4ECDC4" -> <<78, 205, 196>>
       [] hex = "#45B7D1" -> <<69, 183, 209>>]

HexToRgba(hex, alpha) ==
  IF hex \notin DOMAIN HexPairs THEN <<255, 255, 255, alpha>>
  ELSE <<HexPairs[hex][1], HexPairs[hex][2], HexPairs[hex][3], alpha>>

Black == <<0, 0, 0, 100>>            \* '#000000'

White == <<255, 255, 255, 100>>      \* '#FFFFFF'

Grey == <<102, 102, 102, 100>>       \* '#666666'

(***************************************************************************)
(* RenderContext and the canvas.  A renderer record holds the canvas size, *)
(* the dimensions of its RenderContext, the state of the 2D context and    *)
(* the drawing operations that make up the content of the canvas, oldest   *)
(* first.  A fill of the whole canvas with an opaque colour hides all      *)
(* that was drawn before it.                                               *)
(***************************************************************************)
Layouts == {"overlay", "overlay-additive", "stacked", "spectrum-overlay", "spectrum-stacked"}

AmplitudeModes == {"individual", "normalized"}

\* the state of a 2D context just obtained from a canvas
FreshContext ==
  [fillStyle |-> Black, strokeStyle |-> Black, lineWidth |-> 1,
   font |-> "10px sans-serif", textAlign |-> "start", textBaseline |-> "alphabetic"]

\* new WaveformRenderer(canvas, renderContext) on a canvas nothing was drawn on
NewRenderer(canvasWidth, canvasHeight, width, height) ==
  [canvas |-> [width |-> canvasWidth, height |-> canvasHeight],
   dimensions |-> [width |-> width, height |-> height],
   ctx |-> FreshContext,
   ops |-> <<>>]

CenterY(r) == Rat(r.dimensions.height, 2)

\* the percentage taken of the width
HeightPercentToPixelsOfWidth(r, percent) == Rat(percent * r.dimensions.width, 100)

\* (percent / 100) * this.dimensions.height
HeightPercentToPixels(r, percent) == Rat(percent * r.dimensions.height, 100)

FillRect(r, x, y, w, h) ==
  LET op == [type |-> "fillRect", x |-> x, y |-> y, w |-> w, h |-> h,
             style |-> r.ctx.fillStyle]
  IN IF x = 0 /\ y = 0 /\ w = r.canvas.width /\ h = r.canvas.height
        /\ r.ctx.fillStyle[4] = 100
     THEN [r EXCEPT !.ops = <<op>>]
     ELSE [r EXCEPT !.ops = Append(@, op)]

FillText(r, text, x, y) ==
  [r EXCEPT !.ops = Append(@, [type |-> "fillText", text |-> text, x |-> x, y |-> y,
                               style |-> r.ctx.fillStyle, font |-> r.ctx.font,
                               textAlign |-> r.ctx.textAlign,
                               textBaseline |-> r.ctx.textBaseline])]

\* one moveTo(x, y1), lineTo(x, y2) of a path, as stroked
Line(r, x, y1, y2) ==
  [type |-> "line", x |-> x, y1 |-> y1, y2 |-> y2,
   style |-> r.ctx.strokeStyle, lineWidth |-> r.ctx.lineWidth]

\* the number of columns revealed: the whole width whatever the time
MaxXWholeWidth(currentTime, windowDuration, width) == width

\* maxX, the number of columns revealed
MaxX(currentTime, windowDuration, width) ==
  IF currentTime < windowDuration
  THEN FloorMulQuot(width, currentTime, windowDuration)
  ELSE width

\* the amplitude without the division by globalMaxAmplitude
AmplitudeAsExtracted(value, amplitudeMode, globalMaxAmplitude) == Rat(value, WaveUnit)

\* waveformData[x] / globalMaxAmplitude if normalized, as a rational amplitude
Amplitude(value, amplitudeMode, globalMaxAmplitude) ==
  IF amplitudeMode = "normalized" /\ globalMaxAmplitude > 0
  THEN Rat(value, globalMaxAmplitude)
  ELSE Rat(value, WaveUnit)

RECURSIVE MaxOf(_, _, _)
MaxOf(wf, i, max) ==
  IF i > Len(wf) THEN max ELSE MaxOf(wf, i + 1, IF wf[i] > max THEN wf[i] ELSE max)

RECURSIVE GlobalMaxFrom(_, _, _, _, _, _)
GlobalMaxFrom(trackList, i, currentTime, windowDuration, width, globalMax) ==
  IF i > Len(trackList) THEN globalMax
  ELSE GlobalMaxFrom(trackList, i + 1, currentTime, windowDuration, width,
         MaxOf(GetWaveformDataForTimeWindow(trackList[i], currentTime, windowDuration,
                                            width, 0), 1, globalMax))

\* the largest value of the first track only
CalculateGlobalMaxAmplitudeFirstTrack(r, trackList, currentTime, windowDuration) ==
  LET globalMax == GlobalMaxFrom(SubSeq(trackList, 1, 1), 1, currentTime, windowDuration,
                                 r.dimensions.width, 0)
  IN IF globalMax > 0 THEN globalMax ELSE WaveUnit

\* in waveform units; 1.0 when every track is silent in the window
CalculateGlobalMaxAmplitude(r, trackList, currentTime, windowDuration) ==
  LET globalMax == GlobalMaxFrom(trackList, 1, currentTime, windowDuration,
                                 r.dimensions.width, 0)
  IN IF globalMax > 0 THEN globalMax ELSE WaveUnit

\* renderTrackRealtimeWithAmplitude: one path of vertical lines, columns 0 .. maxX - 1
RenderTrackRealtimeWithAmplitude(r, t, currentTime, centerY, maxAmplitude, amplitudeMode, globalMaxAmplitude, smoothingLevel, windowDuration) ==
  LET waveformData == GetWaveformDataForTimeWindow(t, currentTime, windowDuration,
                                                   r.dimensions.width, smoothingLevel)
      color == HexToRgba(t.color, t.opacity)
      r1 == [r EXCEPT !.ctx.strokeStyle = color, !.ctx.fillStyle = color,
                      !.ctx.lineWidth = 2]
      maxX == MaxX(currentTime, windowDuration, r.dimensions.width)
      columns == Min(maxX, Len(waveformData))
      y(x) == RMul(Amplitude(waveformData[x + 1], amplitudeMode, globalMaxAmplitude),
                   maxAmplitude)
      path == [k \in 1..columns |->
                 Line(r1, k - 1, RSub(centerY, y(k - 1)), RAdd(centerY, y(k - 1)))]
  IN [r1 EXCEPT !.ops = @ \o path]

\* tracks.forEach of the overlay layout, from index i on
RECURSIVE RenderTracksOverlay(_, _, _, _, _, _, _, _, _, _)
RenderTracksOverlay(r, trackList, i, currentTime, centerY, maxAmplitude, amplitudeMode, globalMaxAmplitude, smoothingLevel, windowDuration) ==
  IF i > Len(trackList) THEN r
  ELSE RenderTracksOverlay(
         RenderTrackRealtimeWithAmplitude(r, trackList[i], currentTime, centerY,
                                          maxAmplitude, amplitudeMode, globalMaxAmplitude,
                                          smoothingLevel, windowDuration),
         trackList, i + 1, currentTime, centerY, maxAmplitude, amplitudeMode,
         globalMaxAmplitude, smoothingLevel, windowDuration)

\* renderTracksStacked, from index i on: track index i - 1 is centred in its share
\* of the height and extends half of heightPercent above and below
RECURSIVE RenderTracksStacked(_, _, _, _, _, _, _, _, _)
RenderTracksStacked(r, trackList, i, currentTime, amplitudeMode, globalMaxAmplitude, heightPercent, smoothingLevel, windowDuration) ==
  IF i > Len(trackList) THEN r
  ELSE LET numTracks == Len(trackList)
           centerY == Rat((2 * (i - 1) + 1) * r.dimensions.height, 2 * numTracks)
           maxAmplitude == RMul(HeightPercentToPixels(r, heightPercent), <<1, 2>>)
       IN RenderTracksStacked(
            RenderTrackRealtimeWithAmplitude(r, trackList[i], currentTime, centerY,
                                             maxAmplitude, amplitudeMode,
                                             globalMaxAmplitude, smoothingLevel,
                                             windowDuration),
            trackList, i + 1, currentTime, amplitudeMode, globalMaxAmplitude,
            heightPercent, smoothingLevel, windowDuration)

RECURSIVE RSum(_, _)
RSum(amplitudes, i) ==
  IF i > Len(amplitudes) THEN <<0, 1>> ELSE RAdd(amplitudes[i], RSum(amplitudes, i + 1))

\* no scaling, whatever the total
ScaleFactorOne(totalAmplitude) == <<1, 1>>

ScaleFactor(totalAmplitude) ==
  IF RLess(<<1, 1>>, totalAmplitude)
  THEN <<totalAmplitude[2], totalAmplitude[1]>>
  ELSE <<1, 1>>

\* one half of a column of the additive layout, from track index i on: segments
\* longer than half a pixel are stacked from currentY, upwards (direction -1) or
\* downwards (direction 1)
RECURSIVE StackSegments(_, _, _, _, _, _, _, _, _)
StackSegments(r, trackList, amplitudes, i, x, currentY, direction, scaleFactor, maxAmplitude) ==
  IF i > Len(trackList) THEN r
  ELSE LET scaledAmplitude == RMul(amplitudes[i], scaleFactor)
           segmentHeight == RMul(scaledAmplitude, maxAmplitude)
           color == HexToRgba(trackList[i].color, trackList[i].opacity)
           r1 == [r EXCEPT !.ctx.strokeStyle = color, !.ctx.lineWidth = 1]
           yEnd == IF direction < 0 THEN RSub(currentY, segmentHeight)
                                    ELSE RAdd(currentY, segmentHeight)
       IN IF RLess(<<1, 2>>, segmentHeight)
          THEN StackSegments([r1 EXCEPT !.ops = Append(@, Line(r1, x, currentY, yEnd))],
                             trackList, amplitudes, i + 1, x, yEnd, direction,
                             scaleFactor, maxAmplitude)
          ELSE StackSegments(r, trackList, amplitudes, i + 1, x, currentY, direction,
                             scaleFactor, maxAmplitude)

\* the column loop of renderTracksAdditive, from column x on
RECURSIVE AdditiveColumns(_, _, _, _, _, _, _, _, _)
AdditiveColumns(r, trackList, waveformDataArray, x, maxX, centerY, maxAmplitude, amplitudeMode, globalMaxAmplitude) ==
  IF ~(x < maxX /\ x < r.dimensions.width) THEN r
  ELSE LET amplitudes ==
             ArrayOf([i \in 1..Len(trackList) |->
                Amplitude(IF x < Len(waveformDataArray[i])
                          THEN waveformDataArray[i][x + 1] ELSE 0,
                          amplitudeMode, globalMaxAmplitude)])
           totalAmplitude == RSum(amplitudes, 1)
           scaleFactor == ScaleFactor(totalAmplitude)
           upper == StackSegments(r, trackList, amplitudes, 1, x, centerY, -1,
                                  scaleFactor, maxAmplitude)
           lower == StackSegments(upper, trackList, amplitudes, 1, x, centerY, 1,
                                  scaleFactor, maxAmplitude)
       IN AdditiveColumns(lower, trackList, waveformDataArray, x + 1, maxX, centerY,
                          maxAmplitude, amplitudeMode, globalMaxAmplitude)

RenderTracksAdditive(r, trackList, currentTime, centerY, maxAmplitude, amplitudeMode, globalMaxAmplitude, smoothingLevel, windowDuration) ==
  LET waveformDataArray ==
        ArrayOf([i \in 1..Len(trackList) |->
           GetWaveformDataForTimeWindow(trackList[i], currentTime, windowDuration,
                                        r.dimensions.width, smoothingLevel)])
      maxX == MaxX(currentTime, windowDuration, r.dimensions.width)
  IN AdditiveColumns(r, trackList, waveformDataArray, 0, maxX, centerY, maxAmplitude,
                     amplitudeMode, globalMaxAmplitude)

\* the fftSize that renderTrackSpectrum passes: 4 stands for the 2048 of the
\* code, as CanvasWidth stands for the 1920 of the export canvas
FftSize == 4

\* the Hann weight 0.5 * (1 - cos(2 pi i / (fftSize - 1))), times 4: for
\* fftSize 4 the weights are 0, 3/4, 3/4, 0 and for fftSize 2 they are 0, 0
HannTimes4(i, fftSize) == IF fftSize = 4 /\ i \in {1, 2} THEN 3 ELSE 0

\* cos and sin of angle = -2 pi k / N, for the angles 0 and -pi/2
Cos(k, N) == IF k = 0 THEN 1 ELSE 0

Sin(k, N) == IF k = 0 THEN 0 ELSE -1

\* fft(input): the Cooley-Tukey recursion; the real array [real0, imag0, ...] of
\* the code is kept as the sequence of pairs <<real, imag>>
RECURSIVE Fft(_)
Fft(input) ==
  LET N == Len(input)
  IN IF N <= 1 THEN << <<input[1], 0>> >>
     ELSE LET even == [i \in 1..(N \div 2) |-> input[2 * i - 1]]
              odd == [i \in 1..(N \div 2) |-> input[2 * i]]
              evenFFT == Fft(even)
              oddFFT == Fft(odd)
              tReal(k) == Cos(k, N) * oddFFT[k + 1][1] - Sin(k, N) * oddFFT[k + 1][2]
              tImag(k) == Sin(k, N) * oddFFT[k + 1][1] + Cos(k, N) * oddFFT[k + 1][2]
          IN ArrayOf([j \in 1..N |->
               IF j <= N \div 2
               THEN <<evenFFT[j][1] + tReal(j - 1), evenFFT[j][2] + tImag(j - 1)>>
               ELSE <<evenFFT[j - N \div 2][1] - tReal(j - 1 - N \div 2),
                      evenFFT[j - N \div 2][2] - tImag(j - 1 - N \div 2)>>])

\* audioWindow: fftSize samples picked from the window, times the Hann weight;
\* in units of 1 / (4 * FullScale)
AudioWindow(t, startSample, totalSamples, fftSize) ==
  LET channelData == GetChannelData(t, 0)
      sampleIndex(i) == startSample + FloorMulQuot(i, totalSamples, fftSize)
  IN ArrayOf([j \in 1..fftSize |->
       IF sampleIndex(j - 1) < Len(channelData)
       THEN channelData[sampleIndex(j - 1) + 1] * HannTimes4(j - 1, fftSize)
       ELSE 0])

\* a guard that lets every window with a sample through to the transform
InsufficientDataOnlyIfEmpty(totalSamples, fftSize) == totalSamples <= 0

\* if (totalSamples < fftSize): not enough samples
InsufficientData(totalSamples, fftSize) == totalSamples < fftSize

\* getFrequencySpectrumForTimeWindow.  The entries are real * real + imag * imag
\* in units of 1 / (4 * FullScale)^2: the magnitude of the code is their square
\* root, which is zero exactly when they are.  The binary rounding of the Hann
\* weights and of the twiddle factors is not modelled.
GetFrequencySpectrumForTimeWindow(t, currentTime, windowDuration, fftSize) ==
  LET startSample == StartSample(t, currentTime, windowDuration)
      totalSamples == EndSample(t, currentTime, windowDuration) - startSample
  IN IF InsufficientData(totalSamples, fftSize) THEN NewFloat32Array(fftSize \div 2)
     ELSE LET spectrum_ == Fft(AudioWindow(t, startSample, totalSamples, fftSize))
          IN ArrayOf([i \in 1..(fftSize \div 2) |->
               spectrum_[i][1] * spectrum_[i][1] + spectrum_[i][2] * spectrum_[i][2]])

\* renderTrackSpectrum: one path of numBins bars from baseY upwards, bar i at
\* x = i * barWidth with height log10(1 + magnitude * 100) * maxBarHeight, which is
\* 0 for a zero magnitude.  The path is kept as one operation.
RenderTrackSpectrum(r, t, currentTime, baseY, heightPercent, windowDuration) ==
  LET spectrumData == GetFrequencySpectrumForTimeWindow(t, currentTime, windowDuration,
                                                        FftSize)
      numBins == Len(spectrumData)
      color == HexToRgba(t.color, t.opacity)
      r1 == [r EXCEPT !.ctx.strokeStyle = color, !.ctx.fillStyle = color,
                      !.ctx.lineWidth = 2]
  IN [r1 EXCEPT !.ops = Append(@,
        [type |-> "bars", numBins |-> numBins, barWidth |-> Rat(r.dimensions.width, numBins),
         baseY |-> baseY, magnitudes |-> spectrumData,
         maxBarHeight |-> HeightPercentToPixels(r, heightPercent),
         style |-> r1.ctx.strokeStyle, lineWidth |-> r1.ctx.lineWidth])]

\* renderTracksSpectrumOverlay (stacked = FALSE) and renderTracksSpectrumStacked
RECURSIVE RenderTracksSpectrum(_, _, _, _, _, _, _)
RenderTracksSpectrum(r, trackList, i, currentTime, heightPercent, windowDuration, stacked) ==
  IF i > Len(trackList) THEN r
  ELSE LET baseY == IF stacked THEN Rat(i * r.dimensions.height, Len(trackList))
                               ELSE <<r.dimensions.height, 1>>
       IN RenderTracksSpectrum(
            RenderTrackSpectrum(r, trackList[i], currentTime, baseY, heightPercent,
                                windowDuration),
            trackList, i + 1, currentTime, heightPercent, windowDuration, stacked)

DigitChar == <<"0", "1", "2", "3", "4", "5", "6", "7", "8", "9">>

RECURSIVE DecimalString(_)
DecimalString(n) ==
  IF n < 10 THEN <<DigitChar[n + 1]>>
  ELSE Append(DecimalString(n \div 10), DigitChar[(n % 10) + 1])

\* n.toString().padStart(2, '0'), as a sequence of characters
PadStart2(n) == IF n < 10 THEN <<"0">> \o DecimalString(n) ELSE DecimalString(n)

\* `${mins}:${secs}` of a time in ticks
TimeStr(currentTime) ==
  LET mins == currentTime \div (60 * TicksPerSecond)
      secs == (currentTime % (60 * TicksPerSecond)) \div TicksPerSecond
  IN PadStart2(mins) \o <<":">> \o PadStart2(secs)

LabelMargin == 10

\* renderTimeIndicator: the time label at the bottom right (the playhead line is
\* commented out in the code)
RenderTimeIndicator(r, currentTime, windowDuration) ==
  LET r1 == [r EXCEPT !.ctx.fillStyle = White, !.ctx.font = "14px monospace",
                      !.ctx.textAlign = "right", !.ctx.textBaseline = "bottom"]
  IN FillText(r1, TimeStr(currentTime), <<r.dimensions.width - LabelMargin, 1>>,
              <<r.dimensions.height - LabelMargin, 1>>)

RenderEmptyState(r) ==
  LET r1 == [r EXCEPT !.ctx.fillStyle = Grey, !.ctx.font = "20px Arial",
                      !.ctx.textAlign = "center", !.ctx.textBaseline = "middle"]
  IN FillText(r1, "Add audio tracks to begin", Rat(r.dimensions.width, 2),
              Rat(r.dimensions.height, 2))

\* the clear of render() without the assignment of the fill style
ClearCanvasKeepingStyle(r) == FillRect(r, 0, 0, r.canvas.width, r.canvas.height)

\* ctx.fillStyle = '#000000'; ctx.fillRect(0, 0, canvas.width, canvas.height)
ClearCanvas(r) ==
  FillRect([r EXCEPT !.ctx.fillStyle = Black], 0, 0, r.canvas.width, r.canvas.height)

\* WaveformRenderer.render
Render(r, trackList, currentTime, duration, layout, amplitudeMode, heightPercent, smoothingLevel, windowDuration) ==
  LET cleared == ClearCanvas(r)
      globalMaxAmplitude ==
        IF amplitudeMode = "normalized" /\ Len(trackList) > 0
        THEN CalculateGlobalMaxAmplitude(r, trackList, currentTime, windowDuration)
        ELSE WaveUnit
      drawn ==
        CASE layout = "stacked" ->
               RenderTracksStacked(cleared, trackList, 1, currentTime, amplitudeMode,
                                   globalMaxAmplitude, heightPercent, smoothingLevel,
                                   windowDuration)
          [] layout = "overlay-additive" ->
               RenderTracksAdditive(cleared, trackList, currentTime, CenterY(r),
                                    HeightPercentToPixels(r, heightPercent), amplitudeMode,
                                    globalMaxAmplitude, smoothingLevel, windowDuration)
          [] layout = "spectrum-overlay" ->
               RenderTracksSpectrum(cleared, trackList, 1, currentTime, heightPercent,
                                    windowDuration, FALSE)
          [] layout = "spectrum-stacked" ->
               RenderTracksSpectrum(cleared, trackList, 1, currentTime, heightPercent,
                                    windowDuration, TRUE)
          [] OTHER ->
               RenderTracksOverlay(cleared, trackList, 1, currentTime, CenterY(r),
                                   HeightPercentToPixels(r, heightPercent), amplitudeMode,
                                   globalMaxAmplitude, smoothingLevel, windowDuration)
  IN IF Len(trackList) = 0 THEN RenderEmptyState(cleared)
     ELSE RenderTimeIndicator(drawn, currentTime, windowDuration)

(***************************************************************************)
(* Specification of the extractor: one track, one call of                  *)
(* getWaveformDataForTimeWindow with arguments drawn from the bounded      *)
(* sets.  The tracks are a level `base' with one sample `amp' at index     *)
(* pos - 1; channel 1 of a stereo track is at negative full scale.         *)
(***************************************************************************)
Shapes == {<<0, 1>>, <<0, -FullScale>>, <<1, -FullScale>>}      \* <<base, amp>>

ExtractTrack(len, rate, nch, shape, pos) ==
  LET ch0 == [j \in 1..len |-> IF j = pos THEN shape[2] ELSE shape[1]]
      ch1 == [j \in 1..len |-> -FullScale]
  IN [id |-> "t1", channels |-> IF nch = 1 THEN <<ch0>> ELSE <<ch0, ch1>>,
      sampleRate |-> rate, color |-> "#FF6B6B", opacity |-> 70, waveformData |-> Null]

ExtractTracks ==
  { ExtractTrack(len, rate, 2, shape, pos) :
      len \in (0..MaxShortLen) \cup {MaxLen}, rate \in SampleRates,
      shape \in Shapes, pos \in 1..MaxLen }

ExtractInit ==
  /\ track \in ExtractTracks
  /\ call = <<>>
  /\ waveform = <<>>
  /\ spectrum = <<>>
  /\ RestIdle
  /\ tracks = <<>>
  /\ renderer = NewRenderer(0, 0, 0, 0)
  /\ frame = <<>>
  /\ exporter = <<>> /\ log = <<>> /\ mixed = <<>>

Extract ==
  /\ call = <<>>
  /\ \E currentTime \in 0..MaxTime, windowDuration \in WindowDurations,
        targetWidth \in TargetWidths, smoothingLevel \in 0..MaxSmoothing :
       /\ call' = <<[currentTime |-> currentTime, windowDuration |-> windowDuration,
                     targetWidth |-> targetWidth, smoothingLevel |-> smoothingLevel]>>
       /\ waveform' = GetWaveformDataForTimeWindow(track, currentTime, windowDuration,
                                                   targetWidth, smoothingLevel)
       /\ track' = TrackAfterGetWaveform(track)
       /\ UNCHANGED <<restVars, spectrum, renderVars, exportVars, mixed>>

ExtractNext == Extract

SpecExtract == ExtractInit /\ [][ExtractNext]_vars

(***************************************************************************)
(* Specification of the spectrum extractor: one track of the extractor     *)
(* specification, one call of getFrequencySpectrumForTimeWindow.           *)
(***************************************************************************)
FftSizes == {2, 4}

GetSpectrum ==
  /\ call = <<>>
  /\ \E currentTime \in 0..MaxTime, windowDuration \in WindowDurations,
        fftSize \in FftSizes :
       /\ call' = <<[currentTime |-> currentTime, windowDuration |-> windowDuration,
                     fftSize |-> fftSize]>>
       /\ spectrum' = <<GetFrequencySpectrumForTimeWindow(track, currentTime,
                                                          windowDuration, fftSize)>>
       /\ UNCHANGED <<restVars, track, waveform, renderVars, exportVars, mixed>>

SpectrumNext == GetSpectrum

SpecSpectrum == ExtractInit /\ [][SpectrumNext]_vars

(***************************************************************************)
(* Specification of the renderer: a track list, a renderer made by the     *)
(* live view (RenderContext.fromCanvas of its canvas) or by the exporter   *)
(* (RenderContext.forExport), and calls of render() in any order with      *)
(* arguments drawn from the bounded sets.  CanvasWidth x CanvasHeight      *)
(* stands for the 1920 x 1080 of the export canvas.                        *)
(***************************************************************************)
CanvasWidth == 16

CanvasHeight == 9

MaxTracks == 2

MaxRenderTime == 5          \* in ticks

RenderWindowDurations == {4}             \* in ticks
HeightPercents == {50, 100}
RenderSmoothingLevels == {0, 1}
LiveCanvasSizes == {<<CanvasWidth, CanvasHeight>>, <<CanvasHeight, CanvasWidth>>}

\* the decoded channel 0 of the files that can be loaded, at 4 samples a second
PoolSamples ==
  <<  <<FullScale, -1, 0, 1, -FullScale, 1, 0, 0, 1, -1, FullScale, 0,
        0, 1, -1, FullScale, 0, 0, -FullScale, 1, 1, 0, -1, FullScale>>,
      <<1, 1, -(FullScale \div 2), 0, 1, 0>>,
      <<0, 0, 0, 0>>  >>

PoolTrack(k, color, opacity) ==
  [id |-> DigitChar[k + 1], channels |-> <<PoolSamples[k]>>, sampleRate |-> 4,
   color |-> color, opacity |-> opacity, waveformData |-> Null]

\* the track lists after loading up to MaxTracks different files with the palette
\* colours in turn and opacity 0.7
RECURSIVE TrackListsOfLength(_)
TrackListsOfLength(n) ==
  IF n = 0 THEN {<<>>}
  ELSE { Append(l, PoolTrack(k, DefaultPalette[((n - 1) % Len(DefaultPalette)) + 1], 70)) :
           l \in TrackListsOfLength(n - 1), k \in 1..Len(PoolSamples) }

TrackLists ==
  { l \in UNION { TrackListsOfLength(n) : n \in 0..MaxTracks } :
      \A i, j \in 1..Len(l) : i # j => l[i].id # l[j].id }

\* RenderContext.forExport() on the canvas the exporter creates
ExportRenderer == NewRenderer(CanvasWidth, CanvasHeight, CanvasWidth, CanvasHeight)

\* RenderContext.fromCanvas(canvas)
LiveRenderer(size) == NewRenderer(size[1], size[2], size[1], size[2])

RenderArgs ==
  [currentTime : 0..MaxRenderTime, layout : Layouts, amplitudeMode : AmplitudeModes,
   heightPercent : HeightPercents, smoothingLevel : RenderSmoothingLevels,
   windowDuration : RenderWindowDurations]

\* AudioEngine.getDuration(): the longest track, as <<samples, rate>>
RECURSIVE LongestFrom(_, _, _)
LongestFrom(trackList, i, best) ==
  IF i > Len(trackList) THEN best
  ELSE LET d == <<BufferLength(trackList[i]), trackList[i].sampleRate>>
       IN LongestFrom(trackList, i + 1,
                      IF d[1] * best[2] > best[1] * d[2] THEN d ELSE best)

GetDuration(trackList) == LongestFrom(trackList, 1, <<0, 1>>)

RenderWith(r, trackList, a) ==
  Render(r, trackList, a.currentTime, GetDuration(trackList), a.layout, a.amplitudeMode,
         a.heightPercent, a.smoothingLevel, a.windowDuration)

\* every extraction of a render leaves the tracks as TrackAfterGetWaveform does
TracksAfterRender(trackList) ==
  ArrayOf([i \in 1..Len(trackList) |-> TrackAfterGetWaveform(trackList[i])])

RenderInit ==
  /\ tracks \in TrackLists
  /\ renderer \in {ExportRenderer} \cup {LiveRenderer(size) : size \in LiveCanvasSizes}
  /\ frame = <<>>
  /\ track = Null /\ call = <<>> /\ waveform = <<>> /\ spectrum = <<>>
  /\ RestIdle
  /\ exporter = <<>> /\ log = <<>> /\ mixed = <<>>

RenderFrame ==
  /\ frame = <<>>
  /\ \E a \in RenderArgs :
       /\ renderer' = RenderWith(renderer, tracks, a)
       /\ tracks' = TracksAfterRender(tracks)
       /\ frame' = <<a>>
  /\ UNCHANGED <<restVars, extractVars, exportVars, mixed>>

RenderNext == RenderFrame

SpecRender == RenderInit /\ [][RenderNext]_vars

(***************************************************************************)
(* Specification of successive frames: render() called again and again on  *)
(* the same renderer, as the live loop and the export loop do, the times   *)
(* and options of successive calls in any order.  frame[2] tells whether   *)
(* the renderer had rendered before.                                       *)
(***************************************************************************)
RepeatTimes == {0, 1, MaxRenderTime}

RepeatArgs ==
  [currentTime : RepeatTimes, layout : Layouts, amplitudeMode : AmplitudeModes,
   heightPercent : {50}, smoothingLevel : {1}, windowDuration : RenderWindowDurations]

RenderAnyFrame ==
  /\ \E a \in RepeatArgs :
       /\ renderer' = RenderWith(renderer, tracks, a)
       /\ tracks' = TracksAfterRender(tracks)
       /\ frame' = <<a, IF frame = <<>> THEN "first" ELSE "later">>
  /\ UNCHANGED <<restVars, extractVars, exportVars, mixed>>

FramesNext == RenderAnyFrame

SpecFrames == RenderInit /\ [][FramesNext]_vars

(***************************************************************************)
(* AudioEngine's track store and the handlers of TrackControls.            *)
(***************************************************************************)
\* AudioEngine.removeTrack: splice the track with the id out, if there is one
RemoveTrack(trackList, trackId) ==
  SelectSeq(trackList, LAMBDA t : t.id # trackId)

\* AudioEngine.loadTrack of file k with the colour TrackControls.loadFiles picks
LoadTrack(trackList, k) ==
  Append(trackList,
         PoolTrack(k, DefaultPalette[(Len(trackList) % Len(DefaultPalette)) + 1], 70))

\* AudioTrack.setColor
SetColor(t, color) == [t EXCEPT !.color = color]

\* AudioTrack.setOpacity of a slider value in percent
SetOpacity(t, opacity) == [t EXCEPT !.opacity = Max(0, Min(100, opacity))]

(***************************************************************************)
(* VideoExporter.captureFrames and what follows it in export().  The       *)
(* exporter record holds the locals of captureFrames and the place the     *)
(* function has reached:                                                   *)
(*   idle     not called yet                                               *)
(*   render   at the top of the loop body, i < totalFrames                 *)
(*   capture  render() has returned                                        *)
(*   yield    waiting for the timer of "await new Promise(setTimeout)"     *)
(*   mix      the loop is over; mixAudio is next                           *)
(*   encode   the frames are about to be posted to the worker              *)
(*   done, failed                                                          *)
(* Its local `tracks' is the array of the engine itself (getTracks returns *)
(* this.tracks), so the loop reads the variable tracks.  tracksAtStart     *)
(* records the value the array had when captureFrames was called.  The     *)
(* handlers of the page run while the function waits (yield).              *)
(***************************************************************************)
YieldEvery == 10

MaxUiEvents == 1

\* frames per second that put every frame on the time grid
ExportFps == { f \in 1..TicksPerSecond : TicksPerSecond % f = 0 }

ExportOptions ==
  [fps : ExportFps, layout : Layouts, amplitudeMode : {"individual"},
   heightPercent : {50}, smoothingLevel : {0}, windowDuration : RenderWindowDurations]

IdleExporter ==
  [pc |-> "idle", i |-> 0, duration |-> <<0, 1>>, totalFrames |-> 0, options |-> <<>>,
   frames |-> <<>>, tracksAtStart |-> <<>>, encoded |-> <<>>]

\* canvas.toDataURL('image/png'): an encoding of the size and content of the canvas
ToDataURL(r) == <<"data:image/png", r.canvas.width, r.canvas.height, r.ops>>

\* Math.ceil(duration * fps), the duration being the double length / sampleRate
TotalFrames(duration, fps) == CeilMulQuot(fps, duration[1], duration[2])

\* i / fps, in ticks
FrameTime(i, fps) == i * (TicksPerSecond \div fps)

FrameArgsOf(options, i) ==
  [currentTime |-> FrameTime(i, options.fps), layout |-> options.layout,
   amplitudeMode |-> options.amplitudeMode, heightPercent |-> options.heightPercent,
   smoothingLevel |-> options.smoothingLevel, windowDuration |-> options.windowDuration]

UiEventsHandled == Len(SelectSeq(log, LAMBDA e : e[1] = "ui"))

\* after the body of iteration i: i++ and the loop test
AfterFrame(e) ==
  [e EXCEPT !.i = e.i + 1,
            !.pc = IF e.i + 1 < e.totalFrames THEN "render" ELSE "mix"]

StartCaptureWith(optionSet) ==
  /\ exporter.pc = "idle"
  /\ \E options \in optionSet :
       LET duration == GetDuration(tracks)
           totalFrames == TotalFrames(duration, options.fps)
       IN exporter' = [exporter EXCEPT !.pc = IF 0 < totalFrames THEN "render" ELSE "mix",
                                       !.i = 0, !.duration = duration,
                                       !.totalFrames = totalFrames, !.options = options,
                                       !.frames = <<>>, !.tracksAtStart = tracks]
  /\ log' = Append(log, <<"start">>)
  /\ UNCHANGED <<restVars, tracks, renderer, frame, extractVars, mixed>>

StartCapture == StartCaptureWith(ExportOptions)

ExportRenderFrame ==
  /\ exporter.pc = "render"
  /\ LET a == FrameArgsOf(exporter.options, exporter.i)
     IN /\ renderer' = Render(renderer, tracks, a.currentTime, exporter.duration, a.layout,
                              a.amplitudeMode, a.heightPercent, a.smoothingLevel,
                              a.windowDuration)
        /\ frame' = <<a>>
        /\ log' = Append(log, <<"render", exporter.i, a.currentTime>>)
  /\ tracks' = TracksAfterRender(tracks)
  /\ exporter' = [exporter EXCEPT !.pc = "capture"]
  /\ UNCHANGED <<restVars, extractVars, mixed>>

ExportCaptureFrame ==
  /\ exporter.pc = "capture"
  /\ LET captured == [exporter EXCEPT !.frames = Append(@, ToDataURL(renderer))]
     IN exporter' = IF exporter.i % YieldEvery = 0
                    THEN [captured EXCEPT !.pc = "yield"]
                    ELSE AfterFrame(captured)
  /\ log' = Append(log, <<"capture", exporter.i>>)
  /\ UNCHANGED <<restVars, tracks, renderer, frame, extractVars, mixed>>

ResumeAfterYield ==
  /\ exporter.pc = "yield"
  /\ exporter' = AfterFrame(exporter)
  /\ UNCHANGED <<restVars, log, tracks, renderer, frame, extractVars, mixed>>

\* mixAudio throws when the engine has no track
MixAudio ==
  /\ exporter.pc = "mix"
  /\ exporter' = [exporter EXCEPT !.pc = IF Len(tracks) = 0 THEN "failed" ELSE "encode"]
  /\ UNCHANGED <<restVars, log, tracks, renderer, frame, extractVars, mixed>>

\* encodeVideo posts the array of frames to the worker
EncodeVideo ==
  /\ exporter.pc = "encode"
  /\ exporter' = [exporter EXCEPT !.pc = "done", !.encoded = exporter.frames]
  /\ log' = Append(log, <<"encode", Len(exporter.frames)>>)
  /\ UNCHANGED <<restVars, tracks, renderer, frame, extractVars, mixed>>

UiHandlerRuns == exporter.pc = "yield" /\ UiEventsHandled < MaxUiEvents

UiRemoveTrack ==
  /\ UiHandlerRuns
  /\ \E k \in 1..Len(tracks) : tracks' = RemoveTrack(tracks, tracks[k].id)
  /\ log' = Append(log, <<"ui", "remove">>)
  /\ UNCHANGED <<restVars, exporter, renderer, frame, extractVars, mixed>>

UiLoadTrack ==
  /\ UiHandlerRuns
  /\ Len(tracks) < MaxTracks
  /\ \E k \in 1..Len(PoolSamples) :
       /\ \A j \in 1..Len(tracks) : tracks[j].id # DigitChar[k + 1]
       /\ tracks' = LoadTrack(tracks, k)
  /\ log' = Append(log, <<"ui", "load">>)
  /\ UNCHANGED <<restVars, exporter, renderer, frame, extractVars, mixed>>

UiSetColor ==
  /\ UiHandlerRuns
  /\ \E k \in 1..Len(tracks), c \in 1..Len(DefaultPalette) :
       /\ DefaultPalette[c] # tracks[k].color
       /\ tracks' = [tracks EXCEPT ![k] = SetColor(@, DefaultPalette[c])]
  /\ log' = Append(log, <<"ui", "color">>)
  /\ UNCHANGED <<restVars, exporter, renderer, frame, extractVars, mixed>>

UiSetOpacity ==
  /\ UiHandlerRuns
  /\ \E k \in 1..Len(tracks), opacity \in {0, 100} :
       tracks' = [tracks EXCEPT ![k] = SetOpacity(@, opacity)]
  /\ log' = Append(log, <<"ui", "opacity">>)
  /\ UNCHANGED <<restVars, exporter, renderer, frame, extractVars, mixed>>

ExportInit ==
  /\ tracks \in TrackLists
  /\ renderer = ExportRenderer
  /\ frame = <<>>
  /\ exporter = IdleExporter
  /\ log = <<>>
  /\ mixed = <<>>
  /\ track = Null /\ call = <<>> /\ waveform = <<>> /\ spectrum = <<>>
  /\ RestIdle

ExportNext ==
  \/ StartCapture
  \/ ExportRenderFrame
  \/ ExportCaptureFrame
  \/ ResumeAfterYield
  \/ MixAudio
  \/ EncodeVideo
  \/ UiRemoveTrack
  \/ UiLoadTrack
  \/ UiSetColor
  \/ UiSetOpacity

SpecExport == ExportInit /\ [][ExportNext]_vars

(***************************************************************************)
(* Specification of the frame count: captureFrames called on one track of  *)
(* 1..MaxLen samples, for every frame rate up to MaxFps; only its first    *)
(* lines (the duration and totalFrames) are of interest.                   *)
(***************************************************************************)
MaxFps == 21

CountRates == {1, 7}

CountOptions ==
  [fps : 1..MaxFps, layout : {"overlay"}, amplitudeMode : {"individual"},
   heightPercent : {50}, smoothingLevel : {0}, windowDuration : RenderWindowDurations]

CountInit ==
  /\ tracks \in { <<ExtractTrack(len, rate, 2, <<0, 1>>, 1)>> :
                    len \in 1..MaxLen, rate \in CountRates }
  /\ renderer = ExportRenderer
  /\ frame = <<>>
  /\ exporter = IdleExporter
  /\ log = <<>>
  /\ mixed = <<>>
  /\ track = Null /\ call = <<>> /\ waveform = <<>> /\ spectrum = <<>>
  /\ RestIdle

CountFrames == StartCaptureWith(CountOptions)

CountNext == CountFrames

SpecFrameCount == CountInit /\ [][CountNext]_vars

(***************************************************************************)
(* CLIAudioEngine.mixTracks.  A sample a / FullScale of a track of opacity *)
(* p percent contributes the integer a * p, in units of 1 / MixUnit; the   *)
(* normalised samples are exact quotients.  The Float32Array stores round  *)
(* each value to binary32 and the binary64 product by 1.0 / maxAmplitude   *)
(* is within 2^-52 of the quotient, closer than a quotient of two binary32 *)
(* values can be to a binary32 rounding boundary: the stored value is the  *)
(* binary32 nearest to the exact quotient, and that rounding is monotone   *)
(* and fixes 1.0, so the comparisons below are the ones the code makes.    *)
(***************************************************************************)
MixUnit == FullScale * 100

\* track.buffer.getChannelData(1), or channel0 for a mono track
MixChannel(t, side) ==
  IF side = "right" /\ NumberOfChannels(t) > 1 THEN GetChannelData(t, 1)
  ELSE GetChannelData(t, 0)

\* Math.ceil(duration * sampleRate), the sample rate being the first track's
NumSamples(trackList) ==
  LET duration == GetDuration(trackList)
  IN CeilMulQuot(trackList[1].sampleRate, duration[1], duration[2])

\* left[i] (or right[i]) after the loop over the first k tracks
RECURSIVE Accumulated(_, _, _, _, _)
Accumulated(trackList, k, side, i, numSamples) ==
  IF k = 0 THEN 0
  ELSE LET t == trackList[k]
           trackSamples == BufferLength(t)
           gain == t.opacity
       IN Accumulated(trackList, k - 1, side, i, numSamples)
            + (IF i <= trackSamples /\ i <= numSamples
               THEN MixChannel(t, side)[i] * gain ELSE 0)

MaxAmplitudeLeftOnly(left, right) ==
  LET scan[i \in 0..Len(left)] ==
        IF i = 0 THEN 0 ELSE Max(scan[i - 1], Abs(left[i]))
  IN scan[Len(left)]

\* the scan of both channels for the largest absolute value
MaxAmplitude(left, right) ==
  LET scan[i \in 0..Len(left)] ==
        IF i = 0 THEN 0 ELSE Max(Max(scan[i - 1], Abs(left[i])), Abs(right[i]))
  IN scan[Len(left)]

MixTracks(trackList) ==
  IF Len(trackList) = 0
  THEN [error |-> "No tracks to mix", left |-> <<>>, right |-> <<>>, sampleRate |-> 0]
  ELSE LET sampleRate == trackList[1].sampleRate
           numSamples == NumSamples(trackList)
           left == ArrayOf([i \in 1..numSamples |->
                     Accumulated(trackList, Len(trackList), "left", i, numSamples)])
           right == ArrayOf([i \in 1..numSamples |->
                      Accumulated(trackList, Len(trackList), "right", i, numSamples)])
           maxAmplitude == MaxAmplitude(left, right)
           normalizeGain == Rat(MixUnit, maxAmplitude)
       IN IF maxAmplitude > MixUnit
          THEN [error |-> "",
                left |-> ArrayOf([i \in 1..numSamples |->
                           RMul(Rat(left[i], MixUnit), normalizeGain)]),
                right |-> ArrayOf([i \in 1..numSamples |->
                            RMul(Rat(right[i], MixUnit), normalizeGain)]),
                sampleRate |-> sampleRate]
          ELSE [error |-> "",
                left |-> ArrayOf([i \in 1..numSamples |-> Rat(left[i], MixUnit)]),
                right |-> ArrayOf([i \in 1..numSamples |-> Rat(right[i], MixUnit)]),
                sampleRate |-> sampleRate]

(***************************************************************************)
(* Specification of the mixer: mixTracks called once on the tracks the CLI *)
(* loaded, none, one or two WAV files of up to MaxMixLen samples.          *)
(***************************************************************************)
MaxMixLen == 2

MixValues == {-FullScale, 1, FullScale}

MixRates == {1, 2}

MixOpacities == {70, 100}

\* a mono file, or a stereo file whose second channel is the first one negated
MixBuffers ==
  UNION { UNION { { <<ch0>>, <<ch0, [i \in 1..len |-> -ch0[i]]>> } :
                  ch0 \in [1..len -> MixValues] } : len \in 1..MaxMixLen }

MixTrack(k, buffer, rate, opacity) ==
  [id |-> DigitChar[k + 1], channels |-> buffer, sampleRate |-> rate,
   color |-> DefaultPalette[k], opacity |-> opacity, waveformData |-> Null]

MixTracksLoaded(k) ==
  { MixTrack(k, buffer, rate, opacity) :
      buffer \in MixBuffers, rate \in MixRates, opacity \in MixOpacities }

MixTrackLists ==
  {<<>>} \cup { <<t>> : t \in MixTracksLoaded(1) }
         \cup { <<t, u>> : t \in MixTracksLoaded(1), u \in MixTracksLoaded(2) }

MixInit ==
  /\ tracks \in MixTrackLists
  /\ mixed = <<>>
  /\ renderer = NewRenderer(0, 0, 0, 0)
  /\ frame = <<>>
  /\ exporter = <<>> /\ log = <<>>
  /\ track = Null /\ call = <<>> /\ waveform = <<>> /\ spectrum = <<>>
  /\ RestIdle

Mix ==
  /\ mixed = <<>>
  /\ mixed' = <<MixTracks(tracks)>>
  /\ UNCHANGED <<restVars, extractVars, renderVars, exportVars>>

MixNext == Mix

SpecMix == MixInit /\ [][MixNext]_vars

(***************************************************************************)
(* Specification of the length of the mix: mixTracks called once on one or *)
(* two WAV files of 1..MaxLen samples, mono or stereo, at sample rates for *)
(* which duration * sampleRate is not always exact in binary64.  The first *)
(* file has the lower sample rate of the two, which keeps the mix as short *)
(* as the longer file.                                                     *)
(***************************************************************************)
MixLengthRates == {7, 25}

MixLengthTracks ==
  { ExtractTrack(len, rate, nch, <<1, FullScale>>, len) :
      len \in 1..MaxLen, rate \in MixLengthRates, nch \in {1, 2} }

MixLengthTrackLists ==
  { <<t>> : t \in MixLengthTracks }
    \cup { list \in { <<t, u>> : t \in MixLengthTracks, u \in MixLengthTracks } :
             list[1].sampleRate <= list[2].sampleRate }

MixLengthInit ==
  /\ tracks \in MixLengthTrackLists
  /\ mixed = <<>>
  /\ renderer = NewRenderer(0, 0, 0, 0)
  /\ frame = <<>>
  /\ exporter = <<>> /\ log = <<>>
  /\ track = Null /\ call = <<>> /\ waveform = <<>> /\ spectrum = <<>>
  /\ RestIdle

MixLengthNext == Mix

SpecMixLength == MixLengthInit /\ [][MixLengthNext]_vars

(***************************************************************************)
(* The WAV encoders: CLIAudioEngine.encodeWAV on what mixTracks returned,  *)
(* VideoExporter.audioBufferToWav on the stereo buffer the offline context *)
(* rendered.  A file is its sequence of bytes; both encoders fill it from  *)
(* offset 0 upwards without a gap, so it is the concatenation of what they *)
(* write.  Samples are exact rationals <<n, d>>; a binary32 sample times   *)
(* 32767 or 32768 is exact in binary64.                                    *)
(***************************************************************************)
Riff == <<82, 73, 70, 70>>          \* 'RIFF'

Wave == <<87, 65, 86, 69>>          \* 'WAVE'

Fmt == <<102, 109, 116, 32>>        \* 'fmt '

Data == <<100, 97, 116, 97>>        \* 'data'

UInt16LE(v) == <<v % 256, (v \div 256) % 256>>

UInt32LE(v) ==
  <<v % 256, (v \div 256) % 256, (v \div 65536) % 256, (v \div 16777216) % 256>>

\* the two's complement bytes of a 16-bit integer
Int16LE(v) == UInt16LE(v % 65536)

\* Math.round: the nearest integer, halves towards +Infinity
MathRound(r) == (2 * r[1] + r[2]) \div (2 * r[2])

\* ToInt16 of DataView.setInt16: the fraction dropped, then modulo 2^16
ToInt16(r) ==
  LET int == IF r[1] < 0 THEN -((-r[1]) \div r[2]) ELSE r[1] \div r[2]
      m == int % 65536
  IN IF m >= 32768 THEN m - 65536 ELSE m

ClampNone(sample) == sample

\* Math.max(-1, Math.min(1, sample))
Clamp(sample) ==
  LET min == IF RLess(sample, <<1, 1>>) THEN sample ELSE <<1, 1>>
  IN IF RLess(min, <<-1, 1>>) THEN <<-1, 1>> ELSE min

\* Math.round(Math.max(-1, Math.min(1, sample)) * 32767)
CliPcm(sample) == MathRound(RMul(Clamp(sample), <<32767, 1>>))

\* buffer.writeInt16LE throws a RangeError for a value that is no int16
WriteInt16LEThrows(v) == v < -32768 \/ v > 32767

\* sample < 0 ? sample * 0x8000 : sample * 0x7fff, as setInt16 stores it
BrowserPcm(sample) ==
  LET s == Clamp(sample)
  IN ToInt16(IF RLess(s, <<0, 1>>) THEN RMul(s, <<32768, 1>>) ELSE RMul(s, <<32767, 1>>))

\* the 44 bytes before the samples; riffSize is what follows the first 8 bytes
WavHeader(riffSize, numChannels, sampleRate, dataSize) ==
  Riff \o UInt32LE(riffSize) \o Wave
    \o Fmt \o UInt32LE(16) \o UInt16LE(1) \o UInt16LE(numChannels)
    \o UInt32LE(sampleRate) \o UInt32LE(sampleRate * numChannels * 2)
    \o UInt16LE(numChannels * 2) \o UInt16LE(16)
    \o Data \o UInt32LE(dataSize)

\* the loop over the stereo frames: left then right, two bytes each
Interleaved(left, right) ==
  ArrayOf([p \in 1..(4 * Len(left)) |->
             LET i == ((p - 1) \div 4) + 1
                 v == IF (p - 1) % 4 < 2 THEN left[i] ELSE right[i]
             IN Int16LE(v)[((p - 1) % 2) + 1]])

EncodeWAV(mix) ==
  LET numChannels == 2
      blockAlign == numChannels * 2
      numSamples == Len(mix.left)
      dataSize == numSamples * blockAlign
      fileSize == 44 + dataSize
      left == ArrayOf([i \in 1..numSamples |-> CliPcm(mix.left[i])])
      right == ArrayOf([i \in 1..numSamples |-> CliPcm(mix.right[i])])
  IN IF \E i \in 1..numSamples : WriteInt16LEThrows(left[i]) \/ WriteInt16LEThrows(right[i])
     THEN [error |-> "ERR_OUT_OF_RANGE", bytes |-> <<>>]
     ELSE [error |-> "",
           bytes |-> WavHeader(fileSize - 8, numChannels, mix.sampleRate, dataSize)
                       \o Interleaved(left, right)]

\* buffer is the rendered AudioBuffer: two channels, mix.left and mix.right
AudioBufferToWav(buffer) ==
  LET numberOfChannels == 2
      length == Len(buffer.left) * numberOfChannels * 2
      left == ArrayOf([i \in 1..Len(buffer.left) |-> BrowserPcm(buffer.left[i])])
      right == ArrayOf([i \in 1..Len(buffer.left) |-> BrowserPcm(buffer.right[i])])
  IN [error |-> "",
      bytes |-> WavHeader(36 + length, numberOfChannels, buffer.sampleRate, length)
                  \o Interleaved(left, right)]

(***************************************************************************)
(* Specification of the WAV encoders: one call of either encoder on a      *)
(* stereo buffer of up to MaxWavLen frames whose samples are taken from    *)
(* WavSamples, values inside and outside [-1, 1].                          *)
(***************************************************************************)
MaxWavLen == 2

WavSamples == { Rat(n, 4) : n \in {-5, -4, -2, 0, 2, 5} }

WavSampleRates == {1, 44100}

WavBuffers ==
  UNION { [error : {""}, left : [1..len -> WavSamples], right : [1..len -> WavSamples],
           sampleRate : WavSampleRates] : len \in 0..MaxWavLen }

WavInit ==
  /\ mixed \in { <<b>> : b \in WavBuffers }
  /\ wav = <<>> /\ loop = <<>> /\ cli = <<>> /\ engine = <<>> /\ UiIdle
  /\ tracks = <<>>
  /\ renderer = NewRenderer(0, 0, 0, 0)
  /\ frame = <<>>
  /\ exporter = <<>> /\ log = <<>>
  /\ track = Null /\ call = <<>> /\ waveform = <<>> /\ spectrum = <<>>

\* CLIVideoExporter.mixAudio: encodeWAV(mixed)
EncodeMixed ==
  /\ wav = <<>>
  /\ wav' = <<[encoder |-> "encodeWAV"] @@ EncodeWAV(mixed[1])>>
  /\ UNCHANGED <<coreVars, uiVars, loop, cli, engine>>

\* VideoExporter.mixAudio: audioBufferToWav(renderedBuffer)
ConvertRendered ==
  /\ wav = <<>>
  /\ wav' = <<[encoder |-> "audioBufferToWav"] @@ AudioBufferToWav(mixed[1])>>
  /\ UNCHANGED <<coreVars, uiVars, loop, cli, engine>>

WavNext == EncodeMixed \/ ConvertRendered

SpecWav == WavInit /\ [][WavNext]_vars

(***************************************************************************)
(* The state in which the extractor, the compositor, the exporters and the *)
(* mixer have not been used.                                               *)
(***************************************************************************)
CoreIdle ==
  /\ tracks = <<>>
  /\ renderer = NewRenderer(0, 0, 0, 0)
  /\ frame = <<>>
  /\ exporter = <<>> /\ log = <<>>
  /\ mixed = <<>>
  /\ track = Null /\ call = <<>> /\ waveform = <<>> /\ spectrum = <<>>

(***************************************************************************)
(* RenderLoop.  Times are whole ticks of 1 / LoopTicksPerSecond second, so *)
(* that 1000 / targetFPS milliseconds is a whole number of ticks for the   *)
(* rates used and deltaTime % frameInterval is exact.  loop[1] holds the   *)
(* fields of the object (obj), the clock performance.now() (now), the ids  *)
(* of the animation frames requested and not yet run or cancelled          *)
(* (pending), and what happened since the last start(): when it was        *)
(* (startTime), how often the callback ran (calls) and whether the target  *)
(* rate is still the one of that start (steady).  An optional id is <<>>   *)
(* or <<id>>.                                                              *)
(***************************************************************************)
LoopTicksPerSecond == 240

MaxClock == 20          \* ticks the clock runs

\* the arguments given to setTargetFPS
TargetInputs == {5, 20, 48, 120}

\* Math.max(15, Math.min(60, fps))
ClampFPS(fps) == Max(15, Min(60, fps))

\* 1000 / this.targetFPS, in ticks
FrameInterval(targetFPS) == LoopTicksPerSecond \div targetFPS

NewRenderLoop ==
  [isRunning |-> FALSE, animationFrameId |-> <<>>, lastFrameTime |-> 0, fps |-> 0,
   frameCount |-> 0, fpsUpdateTime |-> 0, targetFPS |-> 60,
   frameInterval |-> FrameInterval(60)]

Loop == loop[1]

LastFrameTimeIsNow(now, deltaTime, frameInterval) == now

\* now - (deltaTime % this.frameInterval)
NextLastFrameTime(now, deltaTime, frameInterval) == now - (deltaTime % frameInterval)

\* requestAnimationFrame: an id that is not pending
RequestAnimationFrame(pending) == CHOOSE id \in 1..(Cardinality(pending) + 1) : id \notin pending

\* one run of loop() at the time now on the state l of loop[1]
RunLoop(l) ==
  IF ~l.obj.isRunning THEN l
  ELSE LET o == l.obj
           now == l.now
           deltaTime == now - o.lastFrameTime
           render == deltaTime >= o.frameInterval
           second == now - o.fpsUpdateTime >= LoopTicksPerSecond
           id == RequestAnimationFrame(l.pending)
           rendered ==
             [o EXCEPT !.lastFrameTime = NextLastFrameTime(now, deltaTime, o.frameInterval),
                       !.frameCount = IF second THEN 0 ELSE o.frameCount + 1,
                       !.fps = IF second THEN o.frameCount + 1 ELSE o.fps,
                       !.fpsUpdateTime = IF second THEN now ELSE o.fpsUpdateTime]
       IN [l EXCEPT !.obj = [(IF render THEN rendered ELSE o) EXCEPT !.animationFrameId = <<id>>],
                    !.pending = l.pending \cup {id},
                    !.calls = IF render THEN l.calls + 1 ELSE l.calls]

LoopInit ==
  /\ loop = <<[obj |-> NewRenderLoop, now |-> 0, pending |-> {},
               startTime |-> 0, calls |-> 0, steady |-> TRUE]>>
  /\ CoreIdle
  /\ UiIdle
  /\ wav = <<>> /\ cli = <<>> /\ engine = <<>>

\* performance.now() moves on
Tick ==
  /\ Loop.now < MaxClock
  /\ loop' = <<[Loop EXCEPT !.now = Loop.now + 1]>>
  /\ UNCHANGED <<coreVars, uiVars, wav, cli, engine>>

\* start(callback), the first loop() included
Start ==
  /\ loop' = <<IF Loop.obj.isRunning THEN Loop
               ELSE RunLoop([Loop EXCEPT !.obj.isRunning = TRUE,
                                         !.obj.lastFrameTime = Loop.now,
                                         !.obj.fpsUpdateTime = Loop.now,
                                         !.obj.frameCount = 0,
                                         !.startTime = Loop.now,
                                         !.calls = 0,
                                         !.steady = TRUE])>>
  /\ UNCHANGED <<coreVars, uiVars, wav, cli, engine>>

\* stop()
Stop ==
  /\ loop' = <<[Loop EXCEPT !.obj.isRunning = FALSE,
                            !.obj.animationFrameId = <<>>,
                            !.pending = IF Loop.obj.animationFrameId = <<>> THEN Loop.pending
                                        ELSE Loop.pending \ {Loop.obj.animationFrameId[1]}]>>
  /\ UNCHANGED <<coreVars, uiVars, wav, cli, engine>>

\* setTargetFPS(fps)
SetTargetFPS ==
  \E fps \in TargetInputs :
    /\ loop' = <<[Loop EXCEPT !.obj.targetFPS = ClampFPS(fps),
                              !.obj.frameInterval = FrameInterval(ClampFPS(fps)),
                              !.steady = Loop.steady /\ ClampFPS(fps) = Loop.obj.targetFPS]>>
    /\ UNCHANGED <<coreVars, uiVars, wav, cli, engine>>

\* the browser runs an animation frame that is due: loop()
AnimationFrame ==
  \E id \in Loop.pending :
    /\ loop' = <<RunLoop([Loop EXCEPT !.pending = Loop.pending \ {id}])>>
    /\ UNCHANGED <<coreVars, uiVars, wav, cli, engine>>

LoopNext == Tick \/ Start \/ Stop \/ SetTargetFPS \/ AnimationFrame

SpecLoop == LoopInit /\ [][LoopNext]_vars

(***************************************************************************)
(* The export command of the command line (cli/index.ts) with ConfigParser *)
(* (cli/config.ts).  An optional value is <<>> when it is undefined and    *)
(* <<v>> otherwise; numbers are whole.  cli[1] holds the input of a run    *)
(* (flags: what the user typed, file: <<>> or <<the parsed config file>>)  *)
(* and, once the command ran, its outcome (error, the final config, and    *)
(* passed: <<>> or <<what exporter.export() was called with>>).            *)
(***************************************************************************)
\* a number in "if (x)": neither undefined nor 0
TruthyNumber(x) == x # <<>> /\ x[1] # 0

\* a string in "if (x)": neither undefined nor empty
TruthyString(x) == x # <<>> /\ x[1] # ""

\* left || right, on optional numbers
OrNumber(left, right) == IF TruthyNumber(left) THEN left ELSE right

\* left || right, on optional strings
OrString(left, right) == IF TruthyString(left) THEN left ELSE right

\* left ?? right
OrDefined(left, right) == IF left # <<>> THEN left ELSE right

ValidLayouts == {"overlay", "overlay-additive", "stacked", "spectrum-overlay", "spectrum-stacked"}

ValidAmplitudeModes == {"individual", "normalized"}

NoOverrides ==
  [layout |-> <<>>, amplitudeMode |-> <<>>, heightPercent |-> <<>>,
   smoothingLevel |-> <<>>, windowDuration |-> <<>>]

NoExport == [fps |-> <<>>, codec |-> <<>>, quality |-> <<>>, audioBitrate |-> <<>>]

\* presets/all-presets.json
Presets ==
  << [name |-> "Waveform Overlay 1",
      settings |-> [layout |-> <<"stacked">>, amplitudeMode |-> <<"normalized">>,
                    heightPercent |-> <<80>>, smoothingLevel |-> <<3>>, fpsCap |-> <<30>>,
                    windowDuration |-> <<2>>]] >>

\* ConfigParser.validatePresetSettings: "" or the message of the Error thrown
ValidatePresetSettings(settings) ==
  IF TruthyString(settings.layout) /\ settings.layout[1] \notin ValidLayouts
  THEN "Invalid layout"
  ELSE IF TruthyString(settings.amplitudeMode)
          /\ settings.amplitudeMode[1] \notin ValidAmplitudeModes
  THEN "Invalid amplitudeMode"
  ELSE IF settings.heightPercent # <<>>
          /\ (settings.heightPercent[1] < 1 \/ settings.heightPercent[1] > 100)
  THEN "heightPercent must be between 1 and 100"
  ELSE IF settings.smoothingLevel # <<>>
          /\ (settings.smoothingLevel[1] < 0 \/ settings.smoothingLevel[1] > 5)
  THEN "smoothingLevel must be between 0 and 5"
  ELSE IF settings.windowDuration # <<>> /\ settings.windowDuration[1] <= 0
  THEN "windowDuration must be greater than 0"
  ELSE ""

\* ConfigParser.validateExportSettings
ValidateExportSettings(exportSettings) ==
  IF TruthyNumber(exportSettings.fps)
     /\ (exportSettings.fps[1] < 1 \/ exportSettings.fps[1] > 120)
  THEN "fps must be between 1 and 120"
  ELSE IF TruthyString(exportSettings.codec) /\ exportSettings.codec[1] \notin {"h264", "h265"}
  THEN "codec must be h264 or h265"
  ELSE IF TruthyNumber(exportSettings.quality)
          /\ (exportSettings.quality[1] < 0 \/ exportSettings.quality[1] > 51)
  THEN "quality (CRF) must be between 0 and 51"
  ELSE ""

\* ConfigParser.validateConfig
ValidateConfig(config) ==
  IF Len(config.audioFiles) = 0 THEN "Config must include audioFiles"
  ELSE IF ~TruthyString(config.output) THEN "Config must include output"
  ELSE IF ValidatePresetSettings(config.overrides) # ""
  THEN ValidatePresetSettings(config.overrides)
  ELSE ValidateExportSettings(config.export)

\* the options object that commander hands to the action: --output and --verbose
\* have default values
CommandOptions(flags) ==
  [flags EXCEPT !.output = OrDefined(flags.output, <<"output.mp4">>),
                !.verbose = OrDefined(flags.verbose, <<FALSE>>)]

\* "Apply visualization overrides" and "Apply export overrides"
ApplyOverrides(config, options) ==
  [config EXCEPT
     !.overrides =
       [layout |-> IF TruthyString(options.layout) THEN options.layout ELSE @.layout,
        amplitudeMode |-> IF TruthyString(options.amplitudeMode) THEN options.amplitudeMode
                          ELSE @.amplitudeMode,
        heightPercent |-> IF TruthyNumber(options.height) THEN options.height
                          ELSE @.heightPercent,
        smoothingLevel |-> IF options.smoothing # <<>> THEN options.smoothing
                           ELSE @.smoothingLevel,
        windowDuration |-> IF TruthyNumber(options.windowDuration) THEN options.windowDuration
                           ELSE @.windowDuration],
     !.export =
       [fps |-> IF TruthyNumber(options.fps) THEN options.fps ELSE @.fps,
        codec |-> IF TruthyString(options.codec) THEN options.codec ELSE @.codec,
        quality |-> IF TruthyNumber(options.quality) THEN options.quality ELSE @.quality,
        audioBitrate |-> IF TruthyString(options.audioBitrate) THEN options.audioBitrate
                         ELSE @.audioBitrate]]

\* the branch "if (options.config)": the file's config with the overrides applied
ConfigFromFile(config, options) ==
  ApplyOverrides(
    [config EXCEPT
       !.audioFiles = IF TruthyString(options.audio) THEN options.audio ELSE @,
       !.preset = IF TruthyString(options.preset) THEN options.preset ELSE @,
       !.output = IF TruthyString(options.output) THEN options.output ELSE @,
       !.verbose = IF options.verbose # <<>> THEN options.verbose ELSE @],
    options)

\* the branch "else if (options.audio)"
ConfigFromArguments(options) ==
  ApplyOverrides(
    [audioFiles |-> options.audio, output |-> options.output, preset |-> options.preset,
     verbose |-> options.verbose, overrides |-> NoOverrides, export |-> NoExport],
    options)

FindPresetByName(name) ==
  LET found == SelectSeq(Presets, LAMBDA p : p.name = name)
  IN IF Len(found) = 0 THEN <<>> ELSE <<found[1]>>

\* { ...settings, ...overrides }
Spread(settings, overrides) ==
  [layout |-> OrDefined(overrides.layout, settings.layout),
   amplitudeMode |-> OrDefined(overrides.amplitudeMode, settings.amplitudeMode),
   heightPercent |-> OrDefined(overrides.heightPercent, settings.heightPercent),
   smoothingLevel |-> OrDefined(overrides.smoothingLevel, settings.smoothingLevel),
   fpsCap |-> settings.fpsCap,
   windowDuration |-> OrDefined(overrides.windowDuration, settings.windowDuration)]

DefaultSettings ==
  [layout |-> <<"overlay">>, amplitudeMode |-> <<"individual">>, heightPercent |-> <<50>>,
   smoothingLevel |-> <<0>>, fpsCap |-> <<60>>, windowDuration |-> <<1>>]

QualityIfDefined(quality) == OrDefined(quality, <<23>>)

\* config.export?.quality || 23
QualityOrDefault(quality) == OrNumber(quality, <<23>>)

\* ConfigParser.buildExportOptions: <<>> when it throws for an unknown preset
BuildExportOptions(config) ==
  LET preset == IF TruthyString(config.preset) THEN FindPresetByName(config.preset[1])
                ELSE <<>>
      settings == Spread(IF preset # <<>> THEN preset[1].settings ELSE DefaultSettings,
                         config.overrides)
  IN IF TruthyString(config.preset) /\ preset = <<>> THEN <<>>
     ELSE << [format |-> "mp4",
              codec |-> OrString(config.export.codec, <<"h264">>)[1],
              fps |-> OrNumber(config.export.fps, OrNumber(settings.fpsCap, <<60>>))[1],
              quality |-> QualityOrDefault(config.export.quality)[1],
              audioBitrate |-> OrString(config.export.audioBitrate, <<"192k">>)[1],
              layout |-> settings.layout[1],
              amplitudeMode |-> settings.amplitudeMode[1],
              heightPercent |-> settings.heightPercent[1],
              smoothingLevel |-> settings.smoothingLevel[1],
              windowDuration |-> settings.windowDuration[1]] >>

\* the arguments of FFmpeg that encodeVideo takes from the options
EncoderArguments(options) ==
  [framerate |-> options.fps,
   videoCodec |-> IF options.codec = "h265" THEN "libx265" ELSE "libx264",
   crf |-> options.quality,
   audioBitrate |-> options.audioBitrate]

\* the action of the export command, up to the call of exporter.export()
ExportCommand(flags, file) ==
  LET options == CommandOptions(flags)
      loaded == IF file # <<>> THEN ValidateConfig(file[1]) ELSE ""
      config == IF file # <<>> THEN ConfigFromFile(file[1], options)
                ELSE ConfigFromArguments(options)
      exportOptions == BuildExportOptions(config)
      failed(message) == [error |-> message, config |-> <<>>, passed |-> <<>>]
  IN IF file # <<>> /\ loaded # "" THEN failed(loaded)
     ELSE IF file = <<>> /\ ~TruthyString(flags.audio)
     THEN failed("Either --config or --audio must be specified")
     ELSE IF exportOptions = <<>> THEN failed("Preset not found")
     ELSE [error |-> "", config |-> <<config>>,
           passed |-> << [options |-> exportOptions[1], outputPath |-> config.output[1],
                          verbose |-> OrDefined(config.verbose, <<FALSE>>)[1],
                          encoder |-> EncoderArguments(exportOptions[1])] >>]

(***************************************************************************)
(* Specification of the export command: one run, with at most             *)
(* MaxFlagsGiven of the flags on the command line besides --audio and,     *)
(* when --config is given, a config file with at most MaxFileSettings of   *)
(* its optional settings.  The values are valid ones, the ones that are 0  *)
(* and ones outside the documented ranges.  --audio and "audioFiles" name  *)
(* one file.                                                               *)
(***************************************************************************)
MaxFlagsGiven == 2

MaxFileSettings == 1

GivenCount(r, names) == Cardinality({ n \in names : r[n] # <<>> })

CountedFlags ==
  {"preset", "output", "verbose", "layout", "amplitudeMode", "height", "smoothing",
   "windowDuration", "fps", "codec", "quality", "audioBitrate"}

FlagSets ==
  { f \in [audio : {<<>>, <<"a.wav">>},
           preset : {<<>>, <<"Waveform Overlay 1">>},
           output : {<<>>, <<"cli.mp4">>},
           verbose : {<<>>, <<TRUE>>},
           layout : {<<>>, <<"stacked">>, <<"bogus">>},
           amplitudeMode : {<<>>, <<"normalized">>},
           height : {<<>>, <<0>>, <<75>>, <<500>>},
           smoothing : {<<>>, <<0>>, <<9>>},
           windowDuration : {<<>>, <<-1>>},
           fps : {<<>>, <<30>>, <<1000>>},
           codec : {<<>>, <<"h265">>},
           quality : {<<>>, <<0>>, <<18>>},
           audioBitrate : {<<>>, <<"128k">>}] :
      GivenCount(f, CountedFlags) <= MaxFlagsGiven }

OverridesSets ==
  [layout : {<<>>, <<"overlay-additive">>, <<"bogus">>},
   amplitudeMode : {<<>>, <<"normalized">>},
   heightPercent : {<<>>, <<0>>, <<25>>},
   smoothingLevel : {<<>>, <<2>>, <<7>>},
   windowDuration : {<<>>, <<0>>, <<3>>}]

ExportSets ==
  [fps : {<<>>, <<0>>, <<24>>, <<500>>},
   codec : {<<>>, <<"h265">>},
   quality : {<<>>, <<0>>, <<28>>, <<99>>},
   audioBitrate : {<<>>, <<"256k">>}]

FileSettings(c) ==
  GivenCount(c, {"preset", "verbose"}) + GivenCount(c.overrides, DOMAIN c.overrides)
    + GivenCount(c.export, DOMAIN c.export)

ConfigFiles ==
  { c \in [audioFiles : {<<"f.wav">>},
           preset : {<<>>, <<"Waveform Overlay 1">>},
           output : {<<"file.mp4">>},
           verbose : {<<>>, <<TRUE>>},
           overrides : { o \in OverridesSets : GivenCount(o, DOMAIN o) <= MaxFileSettings },
           export : { e \in ExportSets : GivenCount(e, DOMAIN e) <= MaxFileSettings }] :
      FileSettings(c) <= MaxFileSettings }

CliInit ==
  /\ cli \in { <<[flags |-> f, file |-> c, ran |-> FALSE,
                  error |-> "", config |-> <<>>, passed |-> <<>>]>> :
                 f \in FlagSets, c \in {<<>>} \cup { <<file>> : file \in ConfigFiles } }
  /\ CoreIdle
  /\ UiIdle
  /\ wav = <<>> /\ loop = <<>> /\ engine = <<>>

Cli == cli[1]

\* the export command runs
RunExportCommand ==
  /\ ~Cli.ran
  /\ cli' = <<[flags |-> Cli.flags, file |-> Cli.file, ran |-> TRUE]
               @@ ExportCommand(Cli.flags, Cli.file)>>
  /\ UNCHANGED <<coreVars, uiVars, wav, loop, engine>>

CliNext == RunExportCommand

SpecCli == CliInit /\ [][CliNext]_vars


(***************************************************************************)
(* AudioEngine: playback of the loaded tracks through Web Audio nodes.     *)
(*                                                                         *)
(* Times are whole ticks of 1 / EngineTicksPerSecond seconds.  A tick is a *)
(* power of two of a second, so that every time of the model is a binary64 *)
(* value and the additions and subtractions of the code are exact on them. *)
(* A track object is identified by the number in its id, in the order of   *)
(* creation: `objs' keeps every track object ever created, because the     *)
(* ended-callback of a source node holds a reference to its track also     *)
(* after the track left the array `tracks' (a sequence of ids).  `sources' *)
(* keeps every AudioBufferSourceNode ever created, `gains' the state of    *)
(* the gain node created with each track; of a source node that no longer  *)
(* plays (stopped, or its ended event delivered) the offset and the start  *)
(* time are forgotten.  `events' are the events the last step dispatched.  *)
(***************************************************************************)
EngineTicksPerSecond == 4

MaxEngineTracks == 2

MaxSources == 4

MaxEngineClock == 3

EngineDurations == {1, 2}

SeekTimes == {-1, 1, 3}

\* new AudioEngine(): no audio context, no track, not playing
NewAudioEngine ==
  [audioContext |-> FALSE, currentTime |-> 0, tracks |-> <<>>, objs |-> <<>>,
   sources |-> <<>>, gains |-> <<>>, isPlaying |-> FALSE, startTime |-> 0,
   pausedAt |-> 0, animationFrameId |-> <<>>, events |-> <<>>]

Engine == engine[1]

\* AudioTrack.constructor: the fields of a track that playback uses
NewAudioTrack(id, duration) ==
  [id |-> id, duration |-> duration, sourceNode |-> <<>>, gainNode |-> <<>>]

\* AudioEngine.getDuration of the playback engine: the longest track of the array,
\* 0 without tracks
EngineDuration(e) ==
  IF e.tracks = <<>> THEN 0
  ELSE LET durations == { e.objs[e.tracks[k]].duration : k \in 1..Len(e.tracks) }
       IN  CHOOSE d \in durations : \A other \in durations : other <= d

\* AudioEngine.getCurrentTime
GetCurrentTime(e) ==
  IF ~e.audioContext THEN 0
  ELSE IF e.isPlaying THEN Min(e.currentTime - e.startTime, EngineDuration(e))
  ELSE e.pausedAt

\* the source nodes the tracks of the array refer to
CurrentSources(e) ==
  { e.objs[e.tracks[k]].sourceNode[1] :
      k \in { j \in 1..Len(e.tracks) : e.objs[e.tracks[j]].sourceNode # <<>> } }

\* source.stop() and source.disconnect()
Stopped(source) ==
  [source EXCEPT !.stopped = TRUE, !.connected = FALSE, !.offset = 0, !.startedAt = 0]

\* AudioEngine.stopSources: every source a track of the array refers to is
\* stopped and disconnected, and the reference cleared
StopSources(e) ==
  LET current == CurrentSources(e)
      inArray == { e.tracks[k] : k \in 1..Len(e.tracks) }
  IN  [e EXCEPT
         !.sources = ArrayOf([s \in 1..Len(e.sources) |->
                        IF s \in current
                        THEN Stopped(e.sources[s])
                        ELSE e.sources[s]]),
         !.objs = ArrayOf([id \in 1..Len(e.objs) |->
                        IF id \in inArray
                        THEN [e.objs[id] EXCEPT !.sourceNode = <<>>]
                        ELSE e.objs[id]])]

\* AudioEngine.stopTimeUpdate
StopTimeUpdate(e) == [e EXCEPT !.animationFrameId = <<>>]

\* createBufferSource, connect and start(0, offset) for the track of id `id':
\* the new node is the next of `sources'
StartedSource(e, id, offset) ==
  [track |-> id, offset |-> offset, startedAt |-> e.currentTime,
   stopped |-> FALSE, connected |-> TRUE, ended |-> FALSE]

\* AudioEngine.play
PlayEngine(e) ==
  IF ~e.audioContext \/ e.tracks = <<>> THEN e
  ELSE LET stopped == StopSources(e)
           offset == stopped.pausedAt
           first == Len(stopped.sources)
           position == [id \in 1..Len(e.objs) |->
                          IF \E k \in 1..Len(e.tracks) : e.tracks[k] = id
                          THEN CHOOSE k \in 1..Len(e.tracks) : e.tracks[k] = id
                          ELSE 0]
       IN  [stopped EXCEPT
              !.sources = stopped.sources \o
                            ArrayOf([k \in 1..Len(e.tracks) |->
                                       StartedSource(e, e.tracks[k], offset)]),
              !.objs = ArrayOf([id \in 1..Len(e.objs) |->
                          IF position[id] # 0
                          THEN [stopped.objs[id] EXCEPT
                                  !.sourceNode = <<first + position[id]>>]
                          ELSE stopped.objs[id]]),
              !.isPlaying = TRUE,
              !.startTime = e.currentTime - offset,
              !.animationFrameId = <<1>>,
              !.events = e.events \o <<"play", "timeupdate">>]

\* AudioEngine.pause
PauseEngine(e) ==
  IF ~e.audioContext \/ ~e.isPlaying THEN e
  ELSE LET at == [e EXCEPT !.pausedAt = e.currentTime - e.startTime]
       IN  StopTimeUpdate([StopSources(at) EXCEPT
                             !.isPlaying = FALSE, !.events = e.events \o <<"pause">>])

SeekStaysPaused(e, time) ==
  LET halted == IF e.isPlaying
                THEN StopTimeUpdate([StopSources(e) EXCEPT !.isPlaying = FALSE])
                ELSE e
  IN  [halted EXCEPT
         !.pausedAt = Max(0, Min(time, EngineDuration(halted))),
         !.events = e.events \o <<"seek">>]

\* AudioEngine.seek
SeekEngine(e, time) ==
  LET wasPlaying == e.isPlaying
      halted == IF e.isPlaying
                THEN StopTimeUpdate([StopSources(e) EXCEPT !.isPlaying = FALSE])
                ELSE e
      placed == [halted EXCEPT
                   !.pausedAt = Max(0, Min(time, EngineDuration(halted))),
                   !.events = e.events \o <<"seek">>]
  IN  IF wasPlaying THEN PlayEngine(placed) ELSE placed

KeptReference(t) == t.sourceNode

\* the reference removeTrack leaves in track.sourceNode
ClearedReference(t) == <<>>

\* AudioEngine.removeTrack
RemoveTrackEngine(e, trackId) ==
  IF \A k \in 1..Len(e.tracks) : e.tracks[k] # trackId THEN e
  ELSE LET t == e.objs[trackId]
       IN  [e EXCEPT
              !.sources = IF t.sourceNode = <<>> THEN e.sources
                          ELSE [e.sources EXCEPT ![t.sourceNode[1]] = Stopped(@)],
              !.gains = IF t.gainNode = <<>> THEN e.gains
                        ELSE [e.gains EXCEPT ![t.gainNode[1]] = FALSE],
              !.objs = [e.objs EXCEPT ![trackId] =
                          [@ EXCEPT !.sourceNode = ClearedReference(t),
                                    !.gainNode = <<>>]],
              !.tracks = SelectSeq(e.tracks, LAMBDA id : id # trackId),
              !.events = e.events \o <<"trackremoved">>]

\* the ended event of source s is due: the node was stopped, or it has played
\* its buffer from its offset to the end
EndedDue(e, s) ==
  LET source == e.sources[s]
  IN  /\ ~source.ended
      /\ \/ source.stopped
         \/ e.currentTime - source.startedAt
              >= Max(0, e.objs[source.track].duration - source.offset)

OnEndedOfAnySource(e, s) ==
  LET fired == [e EXCEPT !.sources[s] =
                            [@ EXCEPT !.ended = TRUE, !.offset = 0, !.startedAt = 0]]
  IN  IF e.isPlaying
         /\ 10 * GetCurrentTime(e) >= 10 * EngineDuration(e) - EngineTicksPerSecond
      THEN [fired EXCEPT !.isPlaying = FALSE, !.pausedAt = EngineDuration(e),
                         !.events = e.events \o <<"ended">>]
      ELSE fired

\* the source.onended handler that play() installs on source s
OnEnded(e, s) ==
  LET fired == [e EXCEPT !.sources[s] =
                            [@ EXCEPT !.ended = TRUE, !.offset = 0, !.startedAt = 0]]
      t == e.objs[e.sources[s].track]
  IN  IF e.isPlaying /\ t.sourceNode = <<s>>
         /\ 10 * GetCurrentTime(e) >= 10 * EngineDuration(e) - EngineTicksPerSecond
      THEN [fired EXCEPT !.isPlaying = FALSE, !.pausedAt = EngineDuration(e),
                         !.events = e.events \o <<"ended">>]
      ELSE fired

\* the engine at the start of a step: no event dispatched yet
Calling(e) == [e EXCEPT !.events = <<>>]

EngineInit ==
  /\ CoreIdle
  /\ UiIdle
  /\ wav = <<>> /\ loop = <<>> /\ cli = <<>>
  /\ engine = <<NewAudioEngine>>

\* AudioEngine.loadTrack: initialize(), decode, new AudioTrack, its gain node
\* connected to the master gain, push, 'trackadded'
EngineLoadTrack ==
  /\ engine # <<>>
  /\ Len(Engine.objs) < MaxEngineTracks
  /\ \E duration \in EngineDurations :
       LET e == Calling(Engine)
           id == Len(e.objs) + 1
       IN  engine' = <<[e EXCEPT
                          !.audioContext = TRUE,
                          !.objs = Append(e.objs,
                                     [NewAudioTrack(id, duration) EXCEPT
                                        !.gainNode = <<id>>]),
                          !.gains = Append(e.gains, TRUE),
                          !.tracks = Append(e.tracks, id),
                          !.events = <<"trackadded">>]>>
  /\ UNCHANGED <<coreVars, uiVars, wav, loop, cli>>

EngineRemoveTrack ==
  /\ engine # <<>>
  /\ \E trackId \in 1..MaxEngineTracks :
       engine' = <<RemoveTrackEngine(Calling(Engine), trackId)>>
  /\ UNCHANGED <<coreVars, uiVars, wav, loop, cli>>

EnginePlay ==
  /\ engine # <<>>
  /\ Len(Engine.sources) + Len(Engine.tracks) <= MaxSources
  /\ engine' = <<PlayEngine(Calling(Engine))>>
  /\ UNCHANGED <<coreVars, uiVars, wav, loop, cli>>

EnginePause ==
  /\ engine # <<>>
  /\ engine' = <<PauseEngine(Calling(Engine))>>
  /\ UNCHANGED <<coreVars, uiVars, wav, loop, cli>>

EngineSeek ==
  /\ engine # <<>>
  /\ Engine.isPlaying => Len(Engine.sources) + Len(Engine.tracks) <= MaxSources
  /\ \E time \in SeekTimes :
       engine' = <<SeekEngine(Calling(Engine), time)>>
  /\ UNCHANGED <<coreVars, uiVars, wav, loop, cli>>

\* the browser delivers the ended event of a source node
SourceEnded ==
  /\ engine # <<>>
  /\ \E s \in 1..Len(Engine.sources) :
       /\ EndedDue(Engine, s)
       /\ engine' = <<OnEnded(Calling(Engine), s)>>
  /\ UNCHANGED <<coreVars, uiVars, wav, loop, cli>>

\* the audio clock advances by one tick while the context exists
EngineClock ==
  /\ engine # <<>>
  /\ Engine.audioContext
  /\ Engine.currentTime < MaxEngineClock
  /\ engine' = <<[Calling(Engine) EXCEPT !.currentTime = @ + 1]>>
  /\ UNCHANGED <<coreVars, uiVars, wav, loop, cli>>

EngineNext ==
  \/ EngineLoadTrack
  \/ EngineRemoveTrack
  \/ EnginePlay
  \/ EnginePause
  \/ EngineSeek
  \/ SourceEnded
  \/ EngineClock

SpecEngine == EngineInit /\ [][EngineNext]_vars


(***************************************************************************)
(* Opacity of the tracks: the values a track is constructed with and the   *)
(* values setOpacity is called with, in percent.  A track is constructed   *)
(* by AudioEngine.loadTrack with the opacity argument of the caller, or by *)
(* the command-line tool with the opacity of its entry in the "audioFiles" *)
(* of the config file, 0.7 when the entry gives none.  The log holds the   *)
(* calls: <<"construct", k, opacity>> and <<"setOpacity", k, opacity>> for *)
(* the k-th track.                                                         *)
(***************************************************************************)
MaxOpacityCalls == 3

OpacityArguments == {-50, 0, 70, 100, 150}

DefaultOpacity == 70

\* AudioTrack.constructor of the next file of the pool
Constructed(trackList, opacity) ==
  Append(trackList,
         PoolTrack(Len(trackList) + 1,
                   DefaultPalette[(Len(trackList) % Len(DefaultPalette)) + 1], opacity))

\* ConfigParser.parseAudioFiles: the opacity of an entry of "audioFiles"
ParsedOpacity(entry) == IF entry # <<>> THEN entry[1] ELSE DefaultOpacity

OpacityInit ==
  /\ CoreIdle
  /\ RestIdle

\* AudioEngine.loadTrack(file, color, opacity)
LoadTrackWithOpacity ==
  /\ Len(tracks) < Min(MaxTracks, Len(PoolSamples))
  /\ Len(log) < MaxOpacityCalls
  /\ \E opacity \in OpacityArguments :
       /\ tracks' = Constructed(tracks, opacity)
       /\ log' = Append(log, <<"construct", Len(tracks) + 1, opacity>>)
  /\ UNCHANGED <<restVars, exporter, renderer, frame, extractVars, mixed>>

\* the command-line tool loads the next entry of "audioFiles": parseAudioFiles,
\* CLIAudioEngine.loadTrack, new CLIAudioTrack
CliLoadConfigTrack ==
  /\ Len(tracks) < Min(MaxTracks, Len(PoolSamples))
  /\ Len(log) < MaxOpacityCalls
  /\ \E entry \in {<<>>} \cup { <<opacity>> : opacity \in OpacityArguments } :
       /\ tracks' = Constructed(tracks, ParsedOpacity(entry))
       /\ log' = Append(log, <<"construct", Len(tracks) + 1, ParsedOpacity(entry)>>)
  /\ UNCHANGED <<restVars, exporter, renderer, frame, extractVars, mixed>>

\* track.setOpacity(opacity) on a loaded track
TrackSetOpacity ==
  /\ Len(log) < MaxOpacityCalls
  /\ \E k \in 1..Len(tracks), opacity \in OpacityArguments :
       /\ tracks' = [tracks EXCEPT ![k] = SetOpacity(@, opacity)]
       /\ log' = Append(log, <<"setOpacity", k, opacity>>)
  /\ UNCHANGED <<restVars, exporter, renderer, frame, extractVars, mixed>>

OpacityNext ==
  \/ LoadTrackWithOpacity
  \/ CliLoadConfigTrack
  \/ TrackSetOpacity

SpecOpacity == OpacityInit /\ [][OpacityNext]_vars


(***************************************************************************)
(* One playback of the engine, left to run: play() is called once, pause() *)
(* and seek() are not called; tracks may be loaded and removed at any      *)
(* moment.  The audio clock keeps advancing while a source node plays, and *)
(* up to MaxEngineClock otherwise; the browser delivers the ended event of *)
(* every source node that is due (weak fairness of both).                  *)
(***************************************************************************)
\* a source node that still plays its buffer
Sounding(e, s) ==
  /\ ~e.sources[s].stopped
  /\ ~e.sources[s].ended
  /\ e.currentTime - e.sources[s].startedAt
       < Max(0, e.objs[e.sources[s].track].duration - e.sources[s].offset)

\* the first call of play()
StartPlayback ==
  /\ engine # <<>>
  /\ Engine.sources = <<>>
  /\ EnginePlay

\* the audio clock advances by one tick
PlaybackClock ==
  /\ engine # <<>>
  /\ Engine.audioContext
  /\ \/ Engine.currentTime < MaxEngineClock
     \/ \E s \in 1..Len(Engine.sources) : Sounding(Engine, s)
  /\ engine' = <<[Calling(Engine) EXCEPT !.currentTime = @ + 1]>>
  /\ UNCHANGED <<coreVars, uiVars, wav, loop, cli>>

PlaybackNext ==
  \/ EngineLoadTrack
  \/ EngineRemoveTrack
  \/ StartPlayback
  \/ SourceEnded
  \/ PlaybackClock

SpecPlayback ==
  /\ EngineInit
  /\ [][PlaybackNext]_vars
  /\ WF_vars(SourceEnded)
  /\ WF_vars(PlaybackClock)


(***************************************************************************)
(* PresetManager: the user's presets, kept in memory and in localStorage.  *)
(*                                                                         *)
(* A JavaScript value of a preset is a pair <<type, value>>: a string      *)
(* <<"string", s>>, a finite number <<"number", n>>, the number Infinity   *)
(* <<"Infinity", 0>>, or <<"null", 0>>.  In a JSON text a number is a      *)
(* literal, <<"number", n>> or <<"overflow", 0>> for one like 1e999 that   *)
(* is beyond the range of binary64.  A name is the sequence of its parts:  *)
(* <<"A">> is 'A', <<"A", 1>> is 'A (1)', <<"A", 1, 1>> is 'A (1) (1)'.    *)
(* generateId gives an id no preset has had: ids are numbered in the order *)
(* of generation.  Date.now() is the number of the call.  localStorage     *)
(* holds no item (<<>>) or the JSON text of the collection; setItem may    *)
(* fail for lack of space.  `last' is what the last call was, what it was  *)
(* given and what it did; `failed' is whether any call so far has thrown.  *)
(***************************************************************************)
MaxPresetCalls == 3

Version == 1

Num(n) == <<"number", n>>

Str(s) == <<"string", s>>

Infinity == <<"Infinity", 0>>

JsonNull == <<"null", 0>>

Overflow == <<"overflow", 0>>

\* typeof value === 'number'
IsNumber(value) == value[1] = "number" \/ value[1] = "Infinity"

\* typeof value === 'string'
IsString(value) == value[1] = "string"

SettingsFields ==
  {"layout", "amplitudeMode", "heightPercent", "smoothingLevel", "fpsCap", "windowDuration"}

\* JSON.stringify of a value: a number that is not finite is written as null
StringifyValue(value) == IF value[1] = "Infinity" THEN JsonNull ELSE value

\* JSON.parse of a value: a literal beyond the range of binary64 is Infinity
ParseValue(value) == IF value[1] = "overflow" THEN Infinity ELSE value

StringifySettings(settings) ==
  [f \in DOMAIN settings |-> StringifyValue(settings[f])]

ParseSettings(settings) ==
  [f \in DOMAIN settings |-> ParseValue(settings[f])]

\* JSON.stringify(this.collection): presets in order, each with its fields
StringifyCollection(c) ==
  [presets |-> ArrayOf([k \in 1..Len(c.presets) |->
                  [c.presets[k] EXCEPT !.settings = StringifySettings(@)]]),
   activePresetId |-> c.activePresetId,
   version |-> c.version]

\* JSON.parse of the stored text
ParseCollection(text) ==
  [presets |-> ArrayOf([k \in 1..Len(text.presets) |->
                  [text.presets[k] EXCEPT !.settings = ParseSettings(@)]]),
   activePresetId |-> text.activePresetId,
   version |-> text.version]

EmptyCollection == [presets |-> <<>>, activePresetId |-> <<>>, version |-> Version]

\* PresetManager.loadFromStorage
LoadFromStorage(storage) ==
  IF storage # <<>> /\ ParseCollection(storage[1]).version = Version
  THEN ParseCollection(storage[1])
  ELSE EmptyCollection

PresetIds(c) == { c.presets[k].id : k \in 1..Len(c.presets) }

PresetNames(c) == { c.presets[k].name : k \in 1..Len(c.presets) }

\* presets.findIndex(p => p.id === presetId) + 1: 0 when there is none
FindPreset(c, presetId) ==
  IF presetId \in PresetIds(c)
  THEN CHOOSE k \in 1..Len(c.presets) :
         /\ c.presets[k].id = presetId
         /\ \A j \in 1..(k - 1) : c.presets[j].id # presetId
  ELSE 0

\* the do-while loop of getUniquePresetName from `counter' on
RECURSIVE SuffixedName(_, _, _)
SuffixedName(existingNames, baseName, counter) ==
  IF Append(baseName, counter) \in existingNames
  THEN SuffixedName(existingNames, baseName, counter + 1)
  ELSE Append(baseName, counter)

\* a naming that tries the suffix (1) only
FirstSuffixedName(c, baseName) ==
  IF baseName \notin PresetNames(c) THEN baseName
  ELSE Append(baseName, 1)

\* PresetManager.getUniquePresetName
GetUniquePresetName(c, baseName) ==
  IF baseName \notin PresetNames(c) THEN baseName
  ELSE SuffixedName(PresetNames(c), baseName, 1)

\* PresetManager.isValidPreset of an element of the parsed JSON
IsValidPreset(preset) ==
  /\ "name" \in DOMAIN preset
  /\ "settings" \in DOMAIN preset
  /\ SettingsFields \subseteq DOMAIN preset.settings
  /\ IsString(preset.settings.layout)
  /\ IsString(preset.settings.amplitudeMode)
  /\ IsNumber(preset.settings.heightPercent)
  /\ IsNumber(preset.settings.smoothingLevel)
  /\ IsNumber(preset.settings.fpsCap)
  /\ IsNumber(preset.settings.windowDuration)

\* new PresetManager() over a localStorage that holds `storage'
NewPresetManager(storage, generated, calls, failed) ==
  [collection |-> LoadFromStorage(storage),
   storage |-> storage,
   generated |-> generated,
   calls |-> calls,
   failed |-> failed,
   last |-> [op |-> "new", presetId |-> 0, thrown |-> "", input |-> <<>>,
             returned |-> <<>>]]

Manager == presetManager[1]

\* the manager as a call of `op' finds it
CalledPreset(pm, op, presetId) ==
  [pm EXCEPT !.calls = @ + 1,
             !.last = [op |-> op, presetId |-> presetId, thrown |-> "",
                       input |-> <<>>, returned |-> <<>>]]

ThrownBy(pm, message) == [pm EXCEPT !.last.thrown = message, !.failed = TRUE]

\* PresetManager.saveToStorage; `saved' is whether setItem succeeds
SaveToStorage(pm, saved) ==
  IF saved THEN [pm EXCEPT !.storage = <<StringifyCollection(pm.collection)>>]
  ELSE ThrownBy(pm, "Failed to save presets")

\* PresetManager.createPreset
CreatePreset(pm, name, settings, saved) ==
  LET preset == [id |-> pm.generated + 1, name |-> name, settings |-> settings,
                 createdAt |-> pm.calls, updatedAt |-> pm.calls]
  IN  SaveToStorage([pm EXCEPT !.generated = @ + 1,
                               !.collection.presets = Append(@, preset)], saved)

\* PresetManager.updatePreset
UpdatePreset(pm, presetId, settings, saved) ==
  LET k == FindPreset(pm.collection, presetId)
  IN  IF k = 0 THEN ThrownBy(pm, "Preset not found")
      ELSE SaveToStorage([pm EXCEPT !.collection.presets[k].settings = settings,
                                    !.collection.presets[k].updatedAt = pm.calls],
                         saved)

\* PresetManager.renamePreset
RenamePreset(pm, presetId, newName, saved) ==
  LET k == FindPreset(pm.collection, presetId)
  IN  IF k = 0 THEN ThrownBy(pm, "Preset not found")
      ELSE SaveToStorage([pm EXCEPT !.collection.presets[k].name = newName,
                                    !.collection.presets[k].updatedAt = pm.calls],
                         saved)

\* presets.splice(index, 1)
Splice(presets, index) ==
  SubSeq(presets, 1, index - 1) \o SubSeq(presets, index + 1, Len(presets))

KeepsActivePreset(activePresetId, presetId) == activePresetId

ClearsIfActive(activePresetId, presetId) ==
  IF activePresetId = <<presetId>> THEN <<>> ELSE activePresetId

\* PresetManager.deletePreset
DeletePreset(pm, presetId, saved) ==
  LET k == FindPreset(pm.collection, presetId)
  IN  IF k = 0 THEN ThrownBy(pm, "Preset not found")
      ELSE SaveToStorage(
             [pm EXCEPT !.collection.presets = Splice(@, k),
                        !.collection.activePresetId = ClearsIfActive(@, presetId)],
             saved)

\* PresetManager.loadPreset
LoadPreset(pm, presetId, saved) ==
  LET k == FindPreset(pm.collection, presetId)
  IN  IF k = 0 THEN ThrownBy(pm, "Preset not found")
      ELSE SaveToStorage([pm EXCEPT !.collection.activePresetId = <<presetId>>],
                         saved)

\* PresetManager.exportPreset: the JSON text of the preset
ExportPreset(pm, presetId) ==
  LET k == FindPreset(pm.collection, presetId)
  IN  IF k = 0 THEN ThrownBy(pm, "Preset not found")
      ELSE [pm EXCEPT !.last.returned =
              <<[pm.collection.presets[k] EXCEPT !.settings = StringifySettings(@)]>>]

\* PresetManager.clearActivePreset
ClearActivePreset(pm, saved) ==
  SaveToStorage([pm EXCEPT !.collection.activePresetId = <<>>], saved)

\* the second loop of importPresets: each element is pushed under a new id
\* and a name no preset of the collection has at that moment
RECURSIVE AddImported(_, _)
AddImported(pm, presetsToImport) ==
  IF presetsToImport = <<>> THEN pm
  ELSE LET preset == Head(presetsToImport)
           newPreset == [id |-> pm.generated + 1,
                         name |-> GetUniquePresetName(pm.collection, preset.name[2]),
                         settings |-> preset.settings,
                         createdAt |-> pm.calls, updatedAt |-> pm.calls]
       IN  AddImported([pm EXCEPT !.generated = @ + 1,
                                  !.collection.presets = Append(@, newPreset),
                                  !.last.returned = Append(@, newPreset)],
                       Tail(presetsToImport))

\* JSON.parse(jsonString) as importPresets reads it: the elements of the
\* array, or the one value that is not an array
ParseElements(json) ==
  ArrayOf([k \in 1..Len(json.data) |->
    IF "settings" \in DOMAIN json.data[k]
    THEN [json.data[k] EXCEPT !.settings = ParseSettings(@)]
    ELSE json.data[k]])

\* the elements of presetsToImport up to the first that is not a valid preset
RECURSIVE ValidPrefix(_)
ValidPrefix(presetsToImport) ==
  IF presetsToImport = <<>> \/ ~IsValidPreset(Head(presetsToImport)) THEN <<>>
  ELSE <<Head(presetsToImport)>> \o ValidPrefix(Tail(presetsToImport))

\* an import that validates each element as it adds it
ImportsUntilInvalid(pm, json, saved) ==
  LET read == [pm EXCEPT !.last.input = <<json>>]
      presetsToImport == ParseElements(json)
  IN  IF ~json.syntax
      THEN ThrownBy(read, "Failed to import presets: Unexpected token")
      ELSE IF \E k \in 1..Len(presetsToImport) : ~IsValidPreset(presetsToImport[k])
      THEN ThrownBy(AddImported(read, ValidPrefix(presetsToImport)),
                    "Failed to import presets: Invalid preset structure")
      ELSE LET added == SaveToStorage(AddImported(read, presetsToImport), saved)
           IN  IF added.last.thrown = "" THEN added
               ELSE ThrownBy(added, "Failed to import presets: Failed to save presets")

\* PresetManager.importPresets
ImportPresets(pm, json, saved) ==
  LET read == [pm EXCEPT !.last.input = <<json>>]
      presetsToImport == ParseElements(json)
  IN  IF ~json.syntax
      THEN ThrownBy(read, "Failed to import presets: Unexpected token")
      ELSE IF \E k \in 1..Len(presetsToImport) : ~IsValidPreset(presetsToImport[k])
      THEN ThrownBy(read, "Failed to import presets: Invalid preset structure")
      ELSE LET added == SaveToStorage(AddImported(read, presetsToImport), saved)
           IN  IF added.last.thrown = "" THEN added
               ELSE ThrownBy(added, "Failed to import presets: Failed to save presets")

MaxPresetId == 3

PresetIdsGiven == 1..MaxPresetId

\* settings as the controls of the page give them, and with a number that
\* is not finite
SettingsOf(heightPercent, windowDuration) ==
  [layout |-> Str("overlay"), amplitudeMode |-> Str("individual"),
   heightPercent |-> heightPercent, smoothingLevel |-> Num(0),
   fpsCap |-> Num(60), windowDuration |-> windowDuration]

SettingsGiven ==
  {SettingsOf(Num(50), Num(1)), SettingsOf(Num(100), Num(1)),
   SettingsOf(Num(50), Infinity)}

NamesGiven == {<<"A">>, <<"A", 1>>}

NewNamesGiven == {<<"A">>, <<"B">>}

\* a preset of a JSON text, as exportPreset wrote it under the id it had
PresetText(id, name, settings) ==
  [id |-> id, name |-> Str(name), settings |-> settings,
   createdAt |-> 0, updatedAt |-> 0]

TextA(id) == PresetText(id, <<"A">>, SettingsOf(Num(50), Num(1)))

TextA1(id) == PresetText(id, <<"A", 1>>, SettingsOf(Num(100), Num(1)))

TextOverflow(id) == PresetText(id, <<"B">>, SettingsOf(Num(50), Overflow))

TextNoSettings(id) == [id |-> id, name |-> Str(<<"A">>)]

TextWrongType(id) == PresetText(id, <<"A">>, SettingsOf(Str("50"), Num(1)))

\* the JSON strings given to importPresets: one that does not parse, one
\* preset, and arrays of presets (`data' is the array, or the one value)
JsonGiven(id) ==
  {[syntax |-> FALSE, data |-> <<>>]} \cup
  {[syntax |-> TRUE, data |-> data] : data \in
     {<<TextA(id)>>, <<TextA1(id)>>, <<TextOverflow(id)>>, <<TextNoSettings(id)>>,
      <<TextWrongType(id)>>, <<>>, <<TextA(id), TextA(id)>>,
      <<TextA1(id), TextA(id)>>, <<TextA(id), TextNoSettings(id)>>,
      <<TextWrongType(id), TextA(id)>>}}

\* the ids a JSON text can carry: 0, generated by another manager, and the
\* first id this one has generated
TextIdsGiven == 0..Min(Manager.generated, 1)

PresetInit ==
  /\ CoreIdle
  /\ wav = <<>> /\ loop = <<>> /\ cli = <<>> /\ engine = <<>> /\ exportUI = <<>>
  /\ presetManager = <<NewPresetManager(<<>>, 0, 0, FALSE)>>

PresetCall(op, presetId) == CalledPreset(Manager, op, presetId)

PresetStep(pm) ==
  /\ presetManager' = <<pm>>
  /\ UNCHANGED <<coreVars, wav, loop, cli, engine, exportUI>>

CanCallPreset == presetManager # <<>> /\ Manager.calls < MaxPresetCalls

PresetCreate ==
  /\ CanCallPreset
  /\ \E name \in NamesGiven, settings \in SettingsGiven, saved \in BOOLEAN :
       PresetStep(CreatePreset(PresetCall("createPreset", 0), name, settings, saved))

PresetUpdate ==
  /\ CanCallPreset
  /\ \E presetId \in PresetIdsGiven, settings \in SettingsGiven, saved \in BOOLEAN :
       PresetStep(UpdatePreset(PresetCall("updatePreset", presetId), presetId,
                               settings, saved))

PresetRename ==
  /\ CanCallPreset
  /\ \E presetId \in PresetIdsGiven, newName \in NewNamesGiven, saved \in BOOLEAN :
       PresetStep(RenamePreset(PresetCall("renamePreset", presetId), presetId,
                               newName, saved))

PresetDelete ==
  /\ CanCallPreset
  /\ \E presetId \in PresetIdsGiven, saved \in BOOLEAN :
       PresetStep(DeletePreset(PresetCall("deletePreset", presetId), presetId, saved))

PresetLoad ==
  /\ CanCallPreset
  /\ \E presetId \in PresetIdsGiven, saved \in BOOLEAN :
       PresetStep(LoadPreset(PresetCall("loadPreset", presetId), presetId, saved))

PresetExport ==
  /\ CanCallPreset
  /\ \E presetId \in PresetIdsGiven :
       PresetStep(ExportPreset(PresetCall("exportPreset", presetId), presetId))

PresetImport ==
  /\ CanCallPreset
  /\ \E id \in TextIdsGiven : \E json \in JsonGiven(id), saved \in BOOLEAN :
       PresetStep(ImportPresets(PresetCall("importPresets", 0), json, saved))

PresetClearActive ==
  /\ CanCallPreset
  /\ \E saved \in BOOLEAN :
       PresetStep(ClearActivePreset(PresetCall("clearActivePreset", 0), saved))

\* the page is loaded again: a new manager over the same localStorage
PresetConstruct ==
  /\ CanCallPreset
  /\ PresetStep(NewPresetManager(Manager.storage, Manager.generated,
                                 Manager.calls + 1, Manager.failed))

PresetNext ==
  \/ PresetCreate
  \/ PresetUpdate
  \/ PresetRename
  \/ PresetDelete
  \/ PresetLoad
  \/ PresetExport
  \/ PresetImport
  \/ PresetClearActive
  \/ PresetConstruct

SpecPresets == PresetInit /\ [][PresetNext]_vars


(***************************************************************************)
(* ExportUI and VideoExporter.export: the export of the page, its worker   *)
(* and the messages between them.                                          *)
(*                                                                         *)
(* `pc' is where the call of export() waits: at the promise of initWorker, *)
(* at the timer of captureFrames, at startRendering of mixAudio or at the  *)
(* promise of encodeVideo; "none" before the first call and "settled"      *)
(* after the promise of a call has resolved.  The worker runs on its own   *)
(* thread: it takes the messages of its inbox one by one, and what it      *)
(* posts, and the error event it raises when it crashes, wait in `outbox'  *)
(* until the page's event loop delivers them to worker.onmessage and       *)
(* worker.onerror.  Code between two awaits runs in one step.              *)
(***************************************************************************)
MaxUiTracks == 2

MaxStartCalls == 3

MaxWorkerProgress == 1

FrameCountsGiven == {1, 11}

NewExportUI(sab, disabled) ==
  [sab |-> sab,                       \* typeof SharedArrayBuffer !== 'undefined'
   trackCount |-> 0,                  \* audioEngine.getTracks().length
   isPlaying |-> FALSE,
   isExporting |-> FALSE,
   disabled |-> disabled,             \* exportBtn.disabled
   active |-> FALSE,                  \* progressContainer has class 'active'
   message |-> "",                    \* the message shown in progressFill
   startCalls |-> 0,                  \* calls of startExport
   exports |-> 0,                     \* calls of videoExporter.export
   onCompleteCalls |-> 0,             \* of the last call of export
   onErrorCalls |-> 0,
   pc |-> "none",
   i |-> 0, totalFrames |-> 0,        \* the loop of captureFrames
   workerRef |-> FALSE,               \* this.worker !== null
   worker |-> <<>>]                   \* the Worker last created

UI == exportUI[1]

TheWorker == UI.worker[1]

NewWorker ==
  [pc |-> "idle", onmessage |-> "initWorker", onerror |-> "initWorker",
   inbox |-> <<>>, outbox |-> <<>>, posted |-> 0]

\* ExportUI.updateExportButton
UpdateExportButton(ui) ==
  [ui EXCEPT !.disabled = ~(ui.trackCount > 0) \/ ui.isExporting]

\* ExportUI.resetExportUI
ResetExportUI(ui) ==
  UpdateExportButton([ui EXCEPT !.isExporting = FALSE, !.active = FALSE,
                                !.message = ""])

\* the onProgress callback of startExport: updateProgress
OnProgress(ui, message) == [ui EXCEPT !.message = message]

\* the onComplete callback of startExport: downloadVideo, resetExportUI
OnComplete(ui) == ResetExportUI([ui EXCEPT !.onCompleteCalls = @ + 1])

\* the onError callback of startExport: alert, resetExportUI
OnError(ui) == ResetExportUI([ui EXCEPT !.onErrorCalls = @ + 1])

\* VideoExporter.cleanupWorker: a terminated worker runs no more and none
\* of its messages is delivered
CleanupWorker(ui) ==
  IF ui.workerRef
  THEN [ui EXCEPT !.workerRef = FALSE,
                  !.worker = <<[ui.worker[1] EXCEPT !.pc = "terminated",
                                                    !.inbox = <<>>,
                                                    !.outbox = <<>>]>>]
  ELSE ui

\* export(): the catch and finally blocks, and the end of the call
Catch(ui) == [CleanupWorker(OnError(ui)) EXCEPT !.pc = "settled"]

\* export(): onComplete(videoBlob), the finally block, the end of the call
Complete(ui) == [CleanupWorker(OnComplete(ui)) EXCEPT !.pc = "settled"]

\* VideoExporter.initWorker up to its promise
InitWorker(ui) ==
  [ui EXCEPT !.workerRef = TRUE,
             !.worker = <<[NewWorker EXCEPT !.inbox = <<"init">>]>>,
             !.pc = "initWorker"]

\* VideoExporter.export up to its first await
Export(ui) ==
  LET called == [ui EXCEPT !.exports = @ + 1, !.onCompleteCalls = 0,
                           !.onErrorCalls = 0, !.i = 0, !.totalFrames = 0]
  IN  IF ~ui.sab THEN Catch(called)
      ELSE InitWorker(OnProgress(called, "Initializing..."))

\* ExportUI.startExport up to its await
StartExport(ui) ==
  IF ui.isExporting THEN ui
  ELSE Export([ui EXCEPT !.isPlaying = FALSE, !.isExporting = TRUE,
                         !.disabled = TRUE, !.active = TRUE])

\* VideoExporter.mixAudio up to startRendering, after captureFrames returned
MixAudioCall(ui) ==
  LET shown == OnProgress(ui, "Mixing audio...")
  IN  IF ui.trackCount = 0 THEN Catch(shown)
      ELSE [shown EXCEPT !.pc = "mixAudio"]

\* captureFrames from its call to its first timer: no frame and the return
\* when the duration is 0, else frame 0, which render or toDataURL may throw
BeginCapture(ui, totalFrames, thrown) ==
  LET shown == OnProgress([ui EXCEPT !.totalFrames = totalFrames, !.i = 0],
                          "Rendering frames...")
  IN  IF totalFrames = 0 THEN MixAudioCall(shown)
      ELSE IF thrown THEN Catch(shown)
      ELSE [shown EXCEPT !.pc = "captureFrames"]

\* captureFrames from the timer after frame i to the next timer, YieldEvery
\* frames later, or to the return
ResumeCapture(ui, thrown) ==
  IF ui.i + 1 >= ui.totalFrames THEN MixAudioCall(ui)
  ELSE IF thrown THEN Catch(ui)
  ELSE IF ui.i + YieldEvery < ui.totalFrames THEN [ui EXCEPT !.i = @ + YieldEvery]
  ELSE MixAudioCall([ui EXCEPT !.i = ui.totalFrames - 1])

\* VideoExporter.encodeVideo up to its promise
EncodeVideoCall(ui) ==
  IF ~ui.workerRef THEN Catch(ui)
  ELSE [OnProgress(ui, "Encoding video...") EXCEPT
          !.worker[1].onmessage = "encodeVideo",
          !.worker[1].inbox = Append(@, "export"),
          !.pc = "encodeVideo"]

\* worker.onmessage of initWorker
InitOnMessage(ui, type, totalFrames, thrown) ==
  IF ui.pc # "initWorker" THEN ui
  ELSE IF type = "ready" THEN BeginCapture(ui, totalFrames, thrown)
  ELSE IF type = "error" THEN Catch(ui)
  ELSE ui

\* worker.onmessage of encodeVideo
EncodeOnMessage(ui, type) ==
  IF type = "progress" THEN OnProgress(ui, "Processing...")
  ELSE IF type = "status" THEN OnProgress(ui, "Writing frames...")
  ELSE IF ui.pc # "encodeVideo" THEN ui
  ELSE IF type = "complete" THEN Complete(ui)
  ELSE IF type = "error" THEN Catch(ui)
  ELSE ui

\* worker.onerror, set by initWorker and never again: it rejects the promise
\* of initWorker, which does nothing once that promise is settled
WorkerOnError(ui) ==
  IF ui.pc = "initWorker" THEN Catch(ui) ELSE ui

ExportUIInit ==
  /\ CoreIdle
  /\ wav = <<>> /\ loop = <<>> /\ cli = <<>> /\ engine = <<>>
  /\ presetManager = <<>>
  /\ \E sab \in BOOLEAN, disabled \in BOOLEAN :
       exportUI = <<NewExportUI(sab, disabled)>>

ExportUIStep(ui) ==
  /\ exportUI' = <<ui>>
  /\ UNCHANGED <<coreVars, wav, loop, cli, engine, presetManager>>

Exporting == exportUI # <<>> /\ UI.pc \notin {"none", "settled"}

WorkerRuns == exportUI # <<>> /\ UI.worker # <<>> /\ TheWorker.pc # "terminated"

\* the engine dispatches 'trackadded'
TrackAdded ==
  /\ exportUI # <<>>
  /\ UI.trackCount < MaxUiTracks
  /\ ExportUIStep(UpdateExportButton([UI EXCEPT !.trackCount = @ + 1]))

\* the engine dispatches 'trackremoved'
TrackRemoved ==
  /\ exportUI # <<>>
  /\ UI.trackCount > 0
  /\ ExportUIStep(UpdateExportButton(
       [UI EXCEPT !.trackCount = @ - 1,
                  !.isPlaying = @ /\ UI.trackCount > 1]))

\* the play button
PlayPressed ==
  /\ exportUI # <<>>
  /\ UI.trackCount > 0 /\ ~UI.isPlaying
  /\ ExportUIStep([UI EXCEPT !.isPlaying = TRUE])

\* a click event reaches the listener of the export button; a script can
\* dispatch one to a disabled button too
ExportClicked ==
  /\ exportUI # <<>>
  /\ UI.startCalls < MaxStartCalls
  /\ ExportUIStep(StartExport([UI EXCEPT !.startCalls = @ + 1]))

\* the worker takes the next message of its inbox
WorkerTakesMessage ==
  /\ WorkerRuns
  /\ TheWorker.pc = "idle" /\ TheWorker.inbox # <<>>
  /\ ExportUIStep([UI EXCEPT !.worker[1].pc = Head(TheWorker.inbox),
                             !.worker[1].inbox = Tail(@),
                             !.worker[1].posted = 0])

\* case 'init': initFFmpeg returns and 'ready' is posted, or it throws and
\* the catch posts 'error'
WorkerInitEnds ==
  /\ WorkerRuns
  /\ TheWorker.pc = "init"
  /\ \E type \in {"ready", "error"} :
       ExportUIStep([UI EXCEPT !.worker[1].pc = "idle",
                               !.worker[1].outbox = Append(@, type)])

\* exportVideo posts a status or a progress message
WorkerPostsProgress ==
  /\ WorkerRuns
  /\ TheWorker.pc = "export" /\ TheWorker.posted < MaxWorkerProgress
  /\ \E type \in {"status", "progress"} :
       ExportUIStep([UI EXCEPT !.worker[1].posted = @ + 1,
                               !.worker[1].outbox = Append(@, type)])

\* case 'export': exportVideo posts 'complete', or it throws and the catch
\* posts 'error'
WorkerExportEnds ==
  /\ WorkerRuns
  /\ TheWorker.pc = "export"
  /\ \E type \in {"complete", "error"} :
       ExportUIStep([UI EXCEPT !.worker[1].pc = "idle",
                               !.worker[1].outbox = Append(@, type)])

\* the worker crashes while it handles a message: it raises its error event
\* and runs no more
WorkerCrashes ==
  /\ WorkerRuns
  /\ TheWorker.pc \in {"init", "export"}
  /\ ExportUIStep([UI EXCEPT !.worker[1].pc = "crashed",
                             !.worker[1].outbox = Append(@, "ErrorEvent")])

\* the event loop of the page delivers the next message or event of the worker
WorkerEventDelivered ==
  /\ WorkerRuns
  /\ TheWorker.outbox # <<>>
  /\ LET type == Head(TheWorker.outbox)
         taken == [UI EXCEPT !.worker[1].outbox = Tail(@)]
     IN  \E totalFrames \in IF UI.trackCount = 0 THEN {0} ELSE FrameCountsGiven,
            thrown \in BOOLEAN :
           ExportUIStep(
             IF type = "ErrorEvent" THEN WorkerOnError(taken)
             ELSE IF TheWorker.onmessage = "initWorker"
             THEN InitOnMessage(taken, type, totalFrames, thrown)
             ELSE EncodeOnMessage(taken, type))

\* the timer of captureFrames fires
CaptureTimerFires ==
  /\ exportUI # <<>>
  /\ UI.pc = "captureFrames"
  /\ \E thrown \in BOOLEAN : ExportUIStep(ResumeCapture(UI, thrown))

\* startRendering of mixAudio settles: the mix, then encodeVideo, or the catch
RenderingSettles ==
  /\ exportUI # <<>>
  /\ UI.pc = "mixAudio"
  /\ \E rejected \in BOOLEAN :
       ExportUIStep(IF rejected THEN Catch(UI) ELSE EncodeVideoCall(UI))

WorkerNext ==
  \/ WorkerTakesMessage
  \/ WorkerInitEnds
  \/ WorkerPostsProgress
  \/ WorkerExportEnds
  \/ WorkerCrashes

ExportUINext ==
  \/ TrackAdded
  \/ TrackRemoved
  \/ PlayPressed
  \/ ExportClicked
  \/ WorkerNext
  \/ WorkerEventDelivered
  \/ CaptureTimerFires
  \/ RenderingSettles

SpecExportUI == ExportUIInit /\ [][ExportUINext]_vars

\* the page's event loop runs every task that is waiting, and the worker's
\* thread goes on with the message it handles: it ends or it crashes
ExportUIFairness ==
  /\ WF_vars(WorkerTakesMessage)
  /\ WF_vars(WorkerInitEnds \/ WorkerExportEnds \/ WorkerCrashes)
  /\ WF_vars(WorkerEventDelivered)
  /\ WF_vars(CaptureTimerFires)
  /\ WF_vars(RenderingSettles)

SpecExportRun == ExportUIInit /\ [][ExportUINext]_vars /\ ExportUIFairness

(***************************************************************************)
(* Specification of the smoothing levels: one track of one second, one     *)
(* call of getWaveformDataForTimeWindow at currentTime 0 over that second, *)
(* so that with targetWidth = length every pixel holds |sample|.  The      *)
(* tracks are all the short ones over three sample values, and the ramps   *)
(* top - 2, top - 3, ..., 2 preceded by top - head, top and followed by    *)
(* 0, tail.  The ramps are extracted at levels 0 and 1 only.               *)
(***************************************************************************)
MaxSmoothLen == 4

MaxKink == 4

SmoothValues == {-FullScale, 0, FullScale}

KinkedRamp(top, head, tail) ==
  <<top - head, top>> \o [j \in 1..(top - 3) |-> top - 1 - j] \o <<0, tail>>

SmoothTrack(ch0) ==
  [id |-> "t1", channels |-> <<ch0>>, sampleRate |-> Len(ch0), color |-> "#FF6B6B",
   opacity |-> 70, waveformData |-> Null]

ShortSmoothTracks ==
  UNION { { SmoothTrack(ch0) : ch0 \in [1..len -> SmoothValues] } : len \in 1..MaxSmoothLen }

RampSmoothTracks ==
  { SmoothTrack(KinkedRamp(top, head, tail)) :
      top \in 4..FullScale, head \in 0..MaxKink, tail \in 0..MaxKink }

SmoothInit ==
  /\ track \in ShortSmoothTracks \cup RampSmoothTracks
  /\ call = <<>>
  /\ waveform = <<>>
  /\ spectrum = <<>>
  /\ RestIdle
  /\ tracks = <<>>
  /\ renderer = NewRenderer(0, 0, 0, 0)
  /\ frame = <<>>
  /\ exporter = <<>> /\ log = <<>> /\ mixed = <<>>

ExtractAtLevel ==
  /\ call = <<>>
  /\ \E smoothingLevel \in 0..MaxSmoothing, widthFactor \in {1, 2} :
       /\ track \in RampSmoothTracks => smoothingLevel <= 1 /\ widthFactor = 1
       /\ LET targetWidth == widthFactor * BufferLength(track)
          IN /\ call' = <<[currentTime |-> 0, windowDuration |-> TicksPerSecond,
                           targetWidth |-> targetWidth, smoothingLevel |-> smoothingLevel]>>
             /\ waveform' = GetWaveformDataForTimeWindow(track, 0, TicksPerSecond,
                                                         targetWidth, smoothingLevel)
       /\ track' = TrackAfterGetWaveform(track)
       /\ UNCHANGED <<restVars, spectrum, renderVars, exportVars, mixed>>

SmoothNext == ExtractAtLevel

SpecSmooth == SmoothInit /\ [][SmoothNext]_vars

(***************************************************************************)
(* CLIVideoExporter (cli/export/CLIVideoExporter.ts, as listed in          *)
(* docs/QUICKSTART.md): export() on a 1920 x 1080 canvas of its own, with  *)
(* the maxFrames that the --max-frames option of the command line hands it *)
(* (<<>> when the option is absent, <<m>> for the number m).  The exporter *)
(* record holds the locals of export() and renderFrames() and the PNG      *)
(* files written.                                                          *)
(***************************************************************************)
MaxFramesCap == 4

\* options.maxFrames: absent, or the integer that parseInt made of the argument
MaxFramesValues == {<<>>} \cup { <<m>> : m \in -1..MaxFramesCap }

\* totalFrames without the test maxFrames > 0: any number given is a cap
LimitFramesAnyNumber(totalFrames, maxFrames) ==
  IF maxFrames # <<>> THEN Min(totalFrames, maxFrames[1]) ELSE totalFrames

\* if (maxFrames !== undefined && maxFrames > 0) totalFrames = Math.min(totalFrames, maxFrames)
LimitFrames(totalFrames, maxFrames) ==
  IF maxFrames # <<>> /\ maxFrames[1] > 0 THEN Min(totalFrames, maxFrames[1]) ELSE totalFrames

\* tempDir is <<>> for null; thrown is <<>> or <<the step whose failure left the try block>>
CliIdleExporter ==
  [pc |-> "idle", i |-> 0, duration |-> <<0, 1>>, totalFrames |-> 0, options |-> <<>>,
   maxFrames |-> <<>>, frames |-> <<>>, encoded |-> 0, tempDir |-> <<>>, thrown |-> <<>>]

\* canvas.toBuffer('image/png')
CanvasToBuffer(r) == <<"image/png", r.canvas.width, r.canvas.height, r.ops>>

\* export() up to the call of renderFrames: FFmpeg found, the directory made
CliStartExportWith(optionSet) ==
  /\ exporter.pc = "idle"
  /\ \E options \in optionSet, maxFrames \in MaxFramesValues :
       LET duration == GetDuration(tracks)
           totalFrames == LimitFrames(TotalFrames(duration, options.fps), maxFrames)
       IN exporter' = [exporter EXCEPT !.pc = IF 0 < totalFrames THEN "render" ELSE "mix",
                                       !.i = 0, !.duration = duration,
                                       !.totalFrames = totalFrames, !.options = options,
                                       !.maxFrames = maxFrames,
                                       !.tempDir = <<"visualizer-">>]
  /\ log' = Append(log, <<"start">>)
  /\ UNCHANGED <<restVars, tracks, renderer, frame, extractVars, mixed>>

CliStartExport == CliStartExportWith(ExportOptions)

\* a step inside the try block throws or rejects: control goes to the finally block
CliThrow(step) ==
  /\ exporter' = [exporter EXCEPT !.pc = "finally", !.thrown = <<step>>]
  /\ log' = Append(log, <<"throw", step>>)
  /\ UNCHANGED <<restVars, tracks, renderer, frame, extractVars, mixed>>

\* checkFFmpeg rejects, or fs.mkdtemp does: this.tempDir is still null
CliStartFails ==
  /\ exporter.pc = "idle"
  /\ \E step \in {"checkFFmpeg", "mkdtemp"} : CliThrow(step)

\* render() or canvas.toBuffer() throws, or fs.writeFile of the frame rejects
CliRenderFails ==
  /\ exporter.pc = "render"
  /\ CliThrow("renderFrames")

\* mixTracks() or encodeWAV() throws, or fs.writeFile of audio.wav rejects
CliMixFails ==
  /\ exporter.pc = "mix"
  /\ CliThrow("mixAudio")

\* FFmpeg was started and failed, or fs.stat of the output rejects
CliEncodeFails ==
  /\ exporter.pc = "encode"
  /\ \E step \in {"encodeVideo", "stat"} :
       /\ exporter' = [exporter EXCEPT !.pc = "finally", !.thrown = <<step>>]
       /\ log' = log \o << <<"encode", exporter.totalFrames>>, <<"throw", step>> >>
  /\ UNCHANGED <<restVars, tracks, renderer, frame, extractVars, mixed>>

CleanupOnSuccessOnly(e) == e.tempDir # <<>> /\ e.thrown = <<>>

\* if (this.tempDir)
CleanupRuns(e) == e.tempDir # <<>>

\* the finally block: fs.rm of the directory, a failure of it caught and logged; then
\* export() resolves, or rejects with what was thrown
CliCleanup ==
  /\ exporter.pc = "finally"
  /\ exporter' = [exporter EXCEPT !.pc = IF exporter.thrown = <<>> THEN "done" ELSE "failed"]
  /\ IF CleanupRuns(exporter)
     THEN \E outcome \in {"removed", "rm failed"} :
            log' = Append(log, <<"rm", exporter.tempDir[1], outcome>>)
     ELSE log' = log
  /\ UNCHANGED <<restVars, tracks, renderer, frame, extractVars, mixed>>

\* one iteration of the loop of renderFrames: render, toBuffer, writeFile, i++
CliRenderFrame ==
  /\ exporter.pc = "render"
  /\ LET a == FrameArgsOf(exporter.options, exporter.i)
     IN /\ renderer' = Render(renderer, tracks, a.currentTime, exporter.duration, a.layout,
                              a.amplitudeMode, a.heightPercent, a.smoothingLevel,
                              a.windowDuration)
        /\ frame' = <<a>>
        /\ log' = Append(log, <<"render", exporter.i, a.currentTime>>)
        /\ exporter' = [exporter EXCEPT
                          !.frames = Append(@, <<exporter.i, CanvasToBuffer(renderer')>>),
                          !.i = exporter.i + 1,
                          !.pc = IF exporter.i + 1 < exporter.totalFrames
                                 THEN "render" ELSE "mix"]
  /\ tracks' = TracksAfterRender(tracks)
  /\ UNCHANGED <<restVars, extractVars, mixed>>

\* mixAudio: audioEngine.mixTracks(), written as audio.wav
CliMixAudio ==
  /\ exporter.pc = "mix"
  /\ mixed' = <<MixTracks(tracks)>>
  /\ exporter' = [exporter EXCEPT !.pc = "encode"]
  /\ log' = Append(log, <<"mix">>)
  /\ UNCHANGED <<restVars, tracks, renderer, frame, extractVars>>

\* encodeVideo: FFmpeg is given the frame files and told their number; it exits with
\* code 0 and fs.stat finds the output
CliEncodeVideo ==
  /\ exporter.pc = "encode"
  /\ exporter' = [exporter EXCEPT !.pc = "finally", !.encoded = exporter.totalFrames]
  /\ log' = Append(log, <<"encode", exporter.totalFrames>>)
  /\ UNCHANGED <<restVars, tracks, renderer, frame, extractVars, mixed>>

\* the command line exits when no track was loaded
CliExportInit ==
  /\ tracks \in TrackLists \ {<<>>}
  /\ renderer = ExportRenderer
  /\ frame = <<>>
  /\ exporter = CliIdleExporter
  /\ log = <<>>
  /\ mixed = <<>>
  /\ track = Null /\ call = <<>> /\ waveform = <<>> /\ spectrum = <<>>
  /\ RestIdle

CliExportNext ==
  \/ CliStartExport
  \/ CliRenderFrame
  \/ CliMixAudio
  \/ CliEncodeVideo
  \/ CliStartFails
  \/ CliRenderFails
  \/ CliMixFails
  \/ CliEncodeFails
  \/ CliCleanup

SpecCliExport == CliExportInit /\ [][CliExportNext]_vars

(***************************************************************************)
(* Specification of the frame count of the command line export: export()   *)
(* called on one track of 1..MaxLen samples, for every frame rate up to    *)
(* MaxFps and every maxFrames; only its lines up to renderFrames are of    *)
(* interest.                                                               *)
(***************************************************************************)
CliCountInit ==
  /\ tracks \in { <<ExtractTrack(len, rate, 2, <<0, 1>>, 1)>> :
                    len \in 1..MaxLen, rate \in CountRates }
  /\ renderer = ExportRenderer
  /\ frame = <<>>
  /\ exporter = CliIdleExporter
  /\ log = <<>>
  /\ mixed = <<>>
  /\ track = Null /\ call = <<>> /\ waveform = <<>> /\ spectrum = <<>>
  /\ RestIdle

CliCountFrames == CliStartExportWith(CountOptions)

CliCountNext == CliCountFrames

SpecCliFrameCount == CliCountInit /\ [][CliCountNext]_vars

(***************************************************************************)
(* Claims about the extractor (SpecExtract).                               *)
(***************************************************************************)
Called == call # <<>>

Args == call[1]

SetMax(S) == IF S = {} THEN 0 ELSE CHOOSE m \in S : \A x \in S : x <= m

CallStart == StartSample(track, Args.currentTime, Args.windowDuration)

CallEnd == EndSample(track, Args.currentTime, Args.windowDuration)

\* the largest |channel0[j]| over start + floor(i*S/W) <= j < min(start + floor((i+1)*S/W), end),
\* the floors being those of the exact quotients
ExactBucketPeak(i) ==
  LET S == CallEnd - CallStart
      W == Args.targetWidth
      lo == CallStart + (i * S) \div W
      hi == Min(CallStart + ((i + 1) * S) \div W, CallEnd)
  IN SetMax({ Abs(track.channels[1][j + 1]) : j \in lo..(hi - 1) })

\* C1: with smoothingLevel 0 and a window of S > 0 samples, every pixel i holds the
\* largest absolute channel-0 sample of the bucket
\* [start + floor(i*S/W), min(start + floor((i+1)*S/W), end)).
C1_PeakHoldOverExactBuckets ==
  (Called /\ Args.smoothingLevel = 0 /\ CallEnd - CallStart > 0) =>
    \A i \in 0..(Args.targetWidth - 1) :
      waveform[i + 1] * FullScale = ExactBucketPeak(i) * WaveUnit

\* C2: for currentTime >= windowDuration the buffer has exactly targetWidth values,
\* each in [0, 1].
C2_LengthAndRange ==
  (Called /\ Args.currentTime >= Args.windowDuration) =>
    /\ Len(waveform) = Args.targetWidth
    /\ \A i \in 1..Len(waveform) : 0 <= waveform[i] /\ waveform[i] <= WaveUnit

C2_Witness ==
  /\ Called /\ Args.currentTime >= Args.windowDuration
  /\ Args.smoothingLevel = MaxSmoothing /\ Args.targetWidth > 2
  /\ \E i, j \in 1..Len(waveform) : 0 < waveform[i] /\ waveform[i] < waveform[j]

\* the samples j of the track with startTicks < (j + 1)/sampleRate <= endTicks, the
\* end being cut at the track's duration: floor(start*rate) <= j < floor(end*rate)
SamplesWithin(startTicks, endTicks) ==
  { j \in 0..(BufferLength(track) - 1) :
      /\ startTicks * track.sampleRate < (j + 1) * TicksPerSecond
      /\ (j + 1) * TicksPerSecond <= endTicks * track.sampleRate }

\* C3: every currentTime below windowDuration gives the same buffer, the window being
\* [0, min(windowDuration, duration)]; from windowDuration on the window is
\* [currentTime - windowDuration, currentTime].
C3_StartupWindow ==
  Called =>
    IF Args.currentTime < Args.windowDuration
    THEN /\ \A t2 \in 0..(Args.windowDuration - 1) :
              waveform = GetWaveformDataForTimeWindow(track, t2, Args.windowDuration,
                                                      Args.targetWidth, Args.smoothingLevel)
         /\ CallStart..(CallEnd - 1) = SamplesWithin(0, Args.windowDuration)
    ELSE CallStart..(CallEnd - 1) =
           SamplesWithin(Args.currentTime - Args.windowDuration, Args.currentTime)

C3_Witness ==
  /\ Called /\ Args.currentTime > 0 /\ Args.currentTime < Args.windowDuration
  /\ \E i \in 1..Len(waveform) : waveform[i] > 0
  /\ ~WindowShorterThanTrack(track, Args.windowDuration)
  /\ BufferLength(track) > 1

\* C10: when the window ends past the end of the track (and starts before it), every
\* pixel whose time slice starts at or after the track's duration is 0.
C10_ZeroFillPastEnd ==
  (/\ Called /\ Args.smoothingLevel = 0
   /\ Args.currentTime >= Args.windowDuration
   /\ (Args.currentTime - Args.windowDuration) * track.sampleRate
        < BufferLength(track) * TicksPerSecond
   /\ BufferLength(track) * TicksPerSecond < Args.currentTime * track.sampleRate) =>
    \A i \in 0..(Args.targetWidth - 1) :
      (((Args.currentTime - Args.windowDuration) * Args.targetWidth
          + i * Args.windowDuration) * track.sampleRate
         >= BufferLength(track) * TicksPerSecond * Args.targetWidth)
        => waveform[i + 1] = 0

\* the window starts at or after the end of the track's samples (an empty track
\* included): floor(startTime * sampleRate) >= channelData.length
StartsAtOrAfterEnd ==
  LET startTicks == IF Args.currentTime < Args.windowDuration THEN 0
                    ELSE Args.currentTime - Args.windowDuration
  IN (startTicks * track.sampleRate) \div TicksPerSecond >= BufferLength(track)

\* C11: whenever endSample - startSample <= 0 (an empty track, or a window that starts
\* at or after the end of the samples) the buffer returned has length targetWidth and
\* holds only zeros, for every currentTime and smoothingLevel.
C11_DegenerateWindow ==
  (Called /\ (CallEnd - CallStart <= 0 \/ StartsAtOrAfterEnd)) =>
    /\ Len(waveform) = Args.targetWidth
    /\ \A i \in 1..Len(waveform) : waveform[i] = 0

\* a track with samples, a window beyond its end, smoothing asked for, several pixels
C11_Witness ==
  /\ Called /\ BufferLength(track) > 0
  /\ CallEnd - CallStart < 0 /\ StartsAtOrAfterEnd
  /\ Args.smoothingLevel = MaxSmoothing /\ Args.targetWidth > 2
  /\ \E j \in 1..BufferLength(track) : track.channels[1][j] # 0

(***************************************************************************)
(* Claims about the spectrum extractor (SpecSpectrum).                     *)
(***************************************************************************)
\* C14: when the selected window holds fewer than fftSize samples
\* (endSample - startSample < fftSize), getFrequencySpectrumForTimeWindow returns
\* a buffer of exactly fftSize / 2 entries, all of them zero.
C14_SpectrumInsufficientData ==
  (Called /\ CallEnd - CallStart < Args.fftSize) =>
    /\ 2 * Len(spectrum[1]) = Args.fftSize
    /\ \A i \in 1..Len(spectrum[1]) : spectrum[1][i] = 0

\* a window with samples, fewer than fftSize, at least one of them not zero
C14_Witness ==
  /\ Called /\ Args.fftSize = 4
  /\ CallEnd - CallStart > 1 /\ CallEnd - CallStart < Args.fftSize
  /\ \E j \in (CallStart + 1)..CallEnd : track.channels[1][j] # 0
  /\ spectrum = << <<0, 0>> >>

(***************************************************************************)
(* Claims about the smoothing levels (SpecSmooth).                         *)
(***************************************************************************)
\* the buffer the call made would have returned at another smoothing level
AtLevel(level) ==
  GetWaveformDataForTimeWindow(track, Args.currentTime, Args.windowDuration,
                               Args.targetWidth, level)

BufferGcd(buf) ==
  LET upTo[i \in 0..Len(buf)] == IF i = 0 THEN 0 ELSE Gcd(upTo[i - 1], buf[i])
  IN upTo[Len(buf)]

SumOf(buf) ==
  LET upTo[i \in 0..Len(buf)] == IF i = 0 THEN 0 ELSE upTo[i - 1] + buf[i]
  IN upTo[Len(buf)]

\* n^2 times the variance of the values buf[i] / unit: n * sum(d^2) - sum(d)^2 for the
\* values d less a whole number near their mean
ScaledVariance(buf, unit) ==
  LET n == Len(buf)
      v == ArrayOf([i \in 1..n |-> buf[i] \div unit])
      c == SumOf(v) \div n
      d == ArrayOf([i \in 1..n |-> v[i] - c])
  IN n * SumOf(ArrayOf([i \in 1..n |-> d[i] * d[i]])) - SumOf(d) * SumOf(d)

\* variance(a) <= variance(b), for two buffers of the same length
VarianceLeq(a, b) ==
  LET unit == Max(1, Gcd(BufferGcd(a), BufferGcd(b)))
  IN ScaledVariance(a, unit) <= ScaledVariance(b, unit)

\* C12: for any buffer and any smoothingLevel k in 1..5 the variance of the smoothed
\* buffer is at most the variance of the unsmoothed one.
C12_SmoothingReducesVariance ==
  (Called /\ Args.smoothingLevel >= 1) => VarianceLeq(waveform, AtLevel(0))

\* C13: for a fixed track, time, window and targetWidth the variance of the buffer at
\* smoothingLevel k + 1 is at most the variance at level k, for k = 0..4.
C13_VarianceNonIncreasingInLevel ==
  (Called /\ Args.smoothingLevel < MaxSmoothing) =>
    VarianceLeq(AtLevel(Args.smoothingLevel + 1), waveform)

(***************************************************************************)
(* Claims about the renderer (SpecRender).                                 *)
(***************************************************************************)
Rendered == frame # <<>>

FrameArgs == frame[1]

WaveformLayouts == {"overlay", "overlay-additive", "stacked"}

Width == renderer.dimensions.width

\* floor((currentTime / windowDuration) * width), the floor of the exact quotient
RevealBound == (FrameArgs.currentTime * Width) \div FrameArgs.windowDuration

InStartup == FrameArgs.currentTime < FrameArgs.windowDuration

IsLine(op) == op.type = "line"

LineColumns == { renderer.ops[k].x : k \in { j \in 1..Len(renderer.ops) : IsLine(renderer.ops[j]) } }

GlyphWidth == 1

\* the pixel columns a text operation covers: its width ends at x (right), is centred
\* on x (center) or starts at x
TextColumns(op) ==
  LET w == Len(op.text) * GlyphWidth
      left == CASE op.textAlign = "right" -> op.x[1] \div op.x[2] - w
                [] op.textAlign = "center" -> op.x[1] \div op.x[2] - w \div 2
                [] OTHER -> op.x[1] \div op.x[2]
  IN { x \in 0..(Width - 1) : left <= x /\ x < left + w }

\* the columns in which anything is drawn over the background fill
TouchedColumns ==
  LineColumns \cup
  UNION { TextColumns(renderer.ops[k]) :
            k \in { j \in 1..Len(renderer.ops) : renderer.ops[j].type = "fillText" } }

LinesAt(x, direction) ==
  LET lines == SelectSeq(renderer.ops,
                 LAMBDA op : /\ IsLine(op) /\ op.x = x
                             /\ (IF direction < 0 THEN RLess(op.y2, op.y1)
                                                   ELSE RLess(op.y1, op.y2)))
  IN ArrayOf([k \in 1..Len(lines) |-> <<lines[k].y1, lines[k].y2>>])

RECURSIVE TotalLength(_, _)
TotalLength(lines, k) ==
  IF k > Len(lines) THEN <<0, 1>>
  ELSE LET d == RSub(lines[k][2], lines[k][1])
       IN RAdd(<<Abs(d[1]), d[2]>>, TotalLength(lines, k + 1))

FrameMaxAmplitude == <<FrameArgs.heightPercent * renderer.dimensions.height, 100>>

FrameCenterY == <<renderer.dimensions.height, 2>>

\* the amplitudes of the tracks at column x, each in [0, 1], as <<value, unit>>: the
\* waveform value over 1.0, or over the largest unsmoothed value when normalized
FrameAmplitudes(x) ==
  LET unit == IF FrameArgs.amplitudeMode = "normalized"
              THEN CalculateGlobalMaxAmplitude(renderer, tracks, FrameArgs.currentTime,
                                               FrameArgs.windowDuration)
              ELSE WaveUnit
  IN ArrayOf([i \in 1..Len(tracks) |->
       <<GetWaveformDataForTimeWindow(tracks[i], FrameArgs.currentTime,
                                      FrameArgs.windowDuration, Width,
                                      FrameArgs.smoothingLevel)[x + 1], unit>>])

RECURSIVE ValueSum(_, _)
ValueSum(amps, i) == IF i > Len(amps) THEN 0 ELSE amps[i][1] + ValueSum(amps, i + 1)

\* the segments expected in one half of column x, from track i and height y on: each
\* amplitude times maxAmplitude, divided by the sum of the amplitudes if that exceeds
\* 1.0, and left out if not longer than half a pixel
RECURSIVE ExpectedStack(_, _, _, _, _)
ExpectedStack(amps, den, i, y, direction) ==
  IF i > Len(amps) THEN <<>>
  ELSE LET h == RMul(Rat(amps[i][1], den), Rat(FrameMaxAmplitude[1], FrameMaxAmplitude[2]))
           yEnd == IF direction < 0 THEN RSub(y, h) ELSE RAdd(y, h)
       IN IF RLess(<<1, 2>>, h)
          THEN <<<<y, yEnd>>>> \o ExpectedStack(amps, den, i + 1, yEnd, direction)
          ELSE ExpectedStack(amps, den, i + 1, y, direction)

ColumnAsClaimed(x) ==
  LET amps == FrameAmplitudes(x)
      sum == ValueSum(amps, 1)
      unit == amps[1][2]
      den == IF sum > unit THEN sum ELSE unit
      center == Rat(FrameCenterY[1], FrameCenterY[2])
      max == Rat(FrameMaxAmplitude[1], FrameMaxAmplitude[2])
  IN \A direction \in {-1, 1} :
       LET lines == LinesAt(x, direction)
       IN /\ RLeq(TotalLength(lines, 1), max)
          /\ \A k \in 1..Len(lines) : \A e \in 1..2 :
               /\ RLeq(RSub(center, max), lines[k][e])
               /\ RLeq(lines[k][e], RAdd(center, max))
          /\ lines = ExpectedStack(amps, den, 1, center, direction)

FrameBuffers(level) ==
  ArrayOf([i \in 1..Len(tracks) |->
    GetWaveformDataForTimeWindow(tracks[i], FrameArgs.currentTime,
                                 FrameArgs.windowDuration, Width, level)])

\* the largest peak over all tracks and all pixels of the frame
FramePeak ==
  LET bufs == FrameBuffers(0)
  IN SetMax({ bufs[i][x] : i \in 1..Len(tracks), x \in 1..Width })

FrameGlobalMax ==
  CalculateGlobalMaxAmplitude(renderer, tracks, FrameArgs.currentTime,
                              FrameArgs.windowDuration)

\* the largest distance from the centre line that a stroke of the layout may reach
\* with an amplitude of 1
FrameReach ==
  IF FrameArgs.layout = "stacked"
  THEN <<FrameArgs.heightPercent * renderer.dimensions.height, 200>>
  ELSE FrameMaxAmplitude

NormalizedFrame ==
  /\ Rendered /\ FrameArgs.layout \in WaveformLayouts
  /\ FrameArgs.amplitudeMode = "normalized" /\ tracks # <<>>

CachedBuffers == FrameBuffers(0)

\* the cached buffers after the smoothing filter of the frame's level
SmoothedCachedBuffers ==
  ArrayOf([i \in 1..Len(tracks) |->
    IF FrameArgs.smoothingLevel > 0
    THEN ApplySmoothingFilter(CachedBuffers[i], FrameArgs.smoothingLevel)
    ELSE CachedBuffers[i]])

\* the centre line of track i (from 1) in the overlay and stacked layouts
TrackCenterY(i) ==
  IF FrameArgs.layout = "stacked"
  THEN Rat((2 * i - 1) * renderer.dimensions.height, 2 * Len(tracks))
  ELSE Rat(renderer.dimensions.height, 2)

\* the strokes of the canvas, in drawing order, as <<x, y1, y2>>
DrawnStrokes ==
  LET lines == SelectSeq(renderer.ops, IsLine)
  IN ArrayOf([k \in 1..Len(lines) |-> <<lines[k].x, lines[k].y1, lines[k].y2>>])

\* the strokes of a normalized overlay or stacked frame drawn from given buffers:
\* track after track, the revealed columns from left to right, each from
\* centerY - y to centerY + y with y = buffer[x] / globalMax * maxAmplitude
StrokesFrom(bufs) ==
  LET columns == Min(MaxX(FrameArgs.currentTime, FrameArgs.windowDuration, Width), Width)
      reach == Rat(FrameReach[1], FrameReach[2])
  IN ArrayOf([k \in 1..(Len(tracks) * columns) |->
       LET i == (k - 1) \div columns + 1
           x == (k - 1) % columns
           y == RMul(Rat(bufs[i][x + 1], FrameGlobalMax), reach)
       IN <<x, RSub(TrackCenterY(i), y), RAdd(TrackCenterY(i), y)>>])

NormalizedPerTrackFrame ==
  NormalizedFrame /\ FrameArgs.layout \in {"overlay", "stacked"}

SpectrumLayouts == {"spectrum-overlay", "spectrum-stacked"}

\* the x of the bars of non-zero height on the canvas, as rationals
BarPositions ==
  UNION { { Rat((i - 1) * renderer.ops[k].barWidth[1], renderer.ops[k].barWidth[2]) :
              i \in { j \in 1..renderer.ops[k].numBins : renderer.ops[k].magnitudes[j] # 0 } } :
          k \in { j \in 1..Len(renderer.ops) : renderer.ops[j].type = "bars" } }

\* C17: in the spectrum layouts, while currentTime < windowDuration no spectrum bar
\* is drawn at a pixel column x >= floor((currentTime / windowDuration) * width).
C17_SpectrumProgressiveReveal ==
  (Rendered /\ FrameArgs.layout \in SpectrumLayouts /\ InStartup) =>
    \A x \in BarPositions : RLess(x, <<RevealBound, 1>>)

\* the last drawing operation on the canvas is the time label of the frame
TimeIndicatorIsLast ==
  LET last == renderer.ops[Len(renderer.ops)]
  IN /\ last.type = "fillText" /\ last.style = White /\ last.textAlign = "right"
     /\ last.text = TimeStr(FrameArgs.currentTime)
     /\ last.x = <<Width - LabelMargin, 1>>
     /\ last.y = <<renderer.dimensions.height - LabelMargin, 1>>

\* with at least one track the time label is drawn last, in every layout
TimeIndicatorLastWithTracks == (Rendered /\ tracks # <<>>) => TimeIndicatorIsLast

\* C18: in every call of render, for every layout and every track list including
\* the empty one, the time indicator is drawn and is the last drawing operation of
\* the frame.
C18_TimeIndicatorDrawnLast == Rendered => TimeIndicatorIsLast

\* C19: in the overlay layout on a surface of height H with heightPercent p,
\* maxAmplitude = p/100 * H and centerY = H/2, and the column x of each track is one
\* stroke from centerY - a * maxAmplitude to centerY + a * maxAmplitude, a being the
\* amplitude of the track in that column; a lies in [0, 1], and for p <= 50 both
\* ends of every stroke lie within [0, H].
C19_OverlayGeometry ==
  (Rendered /\ FrameArgs.layout = "overlay" /\ tracks # <<>>) =>
    LET H == renderer.dimensions.height
        p == FrameArgs.heightPercent
        maxAmplitude == Rat(p * H, 100)
        centerY == Rat(H, 2)
        columns == Min(MaxX(FrameArgs.currentTime, FrameArgs.windowDuration, Width), Width)
        bufs == FrameBuffers(FrameArgs.smoothingLevel)
        unit == IF FrameArgs.amplitudeMode = "normalized" THEN FrameGlobalMax ELSE WaveUnit
        strokes == DrawnStrokes
    IN /\ Len(strokes) = Len(tracks) * columns
       /\ \A k \in 1..Len(strokes) :
            LET i == (k - 1) \div columns + 1
                x == (k - 1) % columns
                a == Rat(bufs[i][x + 1], unit)
            IN /\ RLeq(<<0, 1>>, a) /\ RLeq(a, <<1, 1>>)
               /\ strokes[k] = <<x, RSub(centerY, RMul(a, maxAmplitude)),
                                    RAdd(centerY, RMul(a, maxAmplitude))>>
               /\ p <= 50 => /\ RLeq(<<0, 1>>, strokes[k][2])
                             /\ RLeq(strokes[k][3], <<H, 1>>)

\* heightPercent 50 and a column of amplitude 1: a stroke from y = 0 to y = H, next
\* to a shorter one
C19_Witness ==
  /\ Rendered /\ FrameArgs.layout = "overlay" /\ FrameArgs.heightPercent = 50
  /\ \E k \in 1..Len(DrawnStrokes) :
       /\ DrawnStrokes[k][2] = <<0, 1>>
       /\ DrawnStrokes[k][3] = <<renderer.dimensions.height, 1>>
  /\ \E k \in 1..Len(DrawnStrokes) :
       /\ RLess(<<0, 1>>, DrawnStrokes[k][2])
       /\ RLess(DrawnStrokes[k][2], DrawnStrokes[k][3])

(***************************************************************************)
(* Claims about successive frames (SpecFrames).                            *)
(***************************************************************************)
\* the content of a canvas of the size of renderer's after render() with the given
\* tracks and arguments on a renderer that has drawn nothing yet
FirstFrame(trackList, a) ==
  RenderWith(NewRenderer(renderer.canvas.width, renderer.canvas.height,
                         renderer.dimensions.width, renderer.dimensions.height),
             trackList, a).ops

\* C8: the content of the canvas after render() is that of the same call on a new
\* renderer of the same size, whichever loop made the renderer and whatever it
\* rendered before; and rendering (every getWaveformDataForTimeWindow in it) leaves
\* the tracks as they were.
C8_FrameIsAFunctionOfItsInputs ==
  /\ [](Rendered => renderer.ops = FirstFrame(tracks, FrameArgs))
  /\ [][tracks' = tracks]_vars

C8_Witness ==
  /\ Rendered /\ Len(frame) = 2 /\ frame[2] = "later"
  /\ Len(tracks) > 1 /\ FrameArgs.layout = "overlay-additive"
  /\ FrameArgs.currentTime > 0
  /\ \E k \in 1..Len(renderer.ops) : IsLine(renderer.ops[k])

(***************************************************************************)
(* Claims about the export (SpecFrameCount, SpecExport).                   *)
(***************************************************************************)
\* C6: an export over duration d at rate fps renders exactly ceil(d * fps) frames, d
\* being samples / sampleRate of the longest track: the least n with n >= d * fps.
C6_ExactFrameCount ==
  exporter.pc # "idle" =>
    LET samples == exporter.duration[1]
        rate == exporter.duration[2]
        fps == exporter.options.fps
    IN /\ exporter.totalFrames * rate >= fps * samples
       /\ (exporter.totalFrames - 1) * rate < fps * samples

\* the rest of C6: the events of the loop are render 0, capture 0, render 1, capture 1,
\* ... in this order, frame i rendered at time i / fps, one frame captured per render,
\* and the encoder is handed the totalFrames frames in the order captured
LoopEvents == SelectSeq(log, LAMBDA e : e[1] \in {"render", "capture"})

ExportFramesInOrder ==
  /\ \A k \in 1..Len(LoopEvents) :
       LET i == (k - 1) \div 2
       IN IF k % 2 = 1
          THEN LoopEvents[k] = <<"render", i, i * (TicksPerSecond \div exporter.options.fps)>>
          ELSE LoopEvents[k] = <<"capture", i>>
  /\ exporter.pc # "idle" => Len(exporter.frames) = Len(LoopEvents) \div 2
  /\ exporter.pc \in {"mix", "encode", "done", "failed"} =>
       Len(exporter.frames) = exporter.totalFrames
  /\ exporter.pc = "done" => exporter.encoded = exporter.frames

\* what of a canvas content can be told apart from the background: the lines of
\* non-zero length and non-zero alpha, and the text
VisibleOps(ops) ==
  SelectSeq(ops, LAMBDA op :
    CASE op.type = "line" -> op.y1 # op.y2 /\ op.style[4] > 0
      [] op.type = "bars" -> /\ \E i \in 1..op.numBins : op.magnitudes[i] # 0
                             /\ op.style[4] > 0
      [] OTHER -> TRUE)

\* C7: every frame captured by the browser export is the frame rendered from the
\* tracks (list, colours, opacities) the engine held when captureFrames was called,
\* whatever the page handlers did during the yields.
C7_FramesFromTracksAtStart ==
  exporter.frames # <<>> =>
    LET n == Len(exporter.frames)
    IN VisibleOps(exporter.frames[n][4]) =
         VisibleOps(RenderWith(ExportRenderer, exporter.tracksAtStart,
                               FrameArgsOf(exporter.options, n - 1)).ops)

(***************************************************************************)
(* Claims about the mixer (SpecMix).                                       *)
(***************************************************************************)
Mixed == mixed[1]

Sides == {"left", "right"}

\* the un-normalised sum at sample i of a side, in units of 1 / MixUnit: every track
\* that has a sample i adds it times its opacity, a mono track to both sides
UnscaledSum(side, i) ==
  LET term(t) == IF i > BufferLength(t) THEN 0
                 ELSE (IF side = "right" /\ Len(t.channels) > 1
                       THEN t.channels[2][i] ELSE t.channels[1][i]) * t.opacity
      upTo[k \in 0..Len(tracks)] == IF k = 0 THEN 0 ELSE upTo[k - 1] + term(tracks[k])
  IN upTo[Len(tracks)]

UnscaledPeak ==
  SetMax({ Abs(UnscaledSum(side, i)) : side \in Sides, i \in 1..Len(Mixed.left) })

\* C9: for a non-empty track list the output of mixTracks has peak absolute sample
\* <= 1.0 in both channels; it is the un-normalised sum when the peak of that sum is
\* <= 1.0, and the sum divided by that peak, in both channels, when it is > 1.0.
C9_MixNormalization ==
  (mixed # <<>> /\ tracks # <<>>) =>
    /\ Mixed.error = ""
    /\ Len(Mixed.left) = Len(Mixed.right)
    /\ LET peak == UnscaledPeak
       IN \A side \in Sides : \A i \in 1..Len(Mixed.left) :
            LET out == Mixed[side][i]
                sum == UnscaledSum(side, i)
            IN /\ RLeq(out, <<1, 1>>) /\ RLeq(<<-1, 1>>, out)
               /\ peak <= MixUnit => out = Rat(sum, MixUnit)
               /\ peak > MixUnit => out = Rat(sum, peak)

\* two tracks mixed whose sum exceeds 1.0 and was scaled: the peak is now exactly 1.0
\* on one side, and the other side holds something else
C9_Witness ==
  /\ mixed # <<>> /\ Len(tracks) = 2
  /\ UnscaledPeak > MixUnit
  /\ Mixed.left # Mixed.right
  /\ \E side \in Sides : \E i \in 1..Len(Mixed.left) : Mixed[side][i] \in {<<1, 1>>, <<-1, 1>>}
  /\ \E side \in Sides : \E i \in 1..Len(Mixed.left) :
       Mixed[side][i] \notin {<<1, 1>>, <<-1, 1>>, <<0, 1>>}

(***************************************************************************)
(* Claims about the command line export (SpecCliFrameCount,                *)
(* SpecCliExport).                                                         *)
(***************************************************************************)
\* ceil(duration * fps), duration being samples / sampleRate of the longest track
ExactFrameCount ==
  LET samples == exporter.duration[1]
      rate == exporter.duration[2]
      fps == exporter.options.fps
  IN (fps * samples + rate - 1) \div rate

CapGiven == exporter.maxFrames # <<>> /\ exporter.maxFrames[1] > 0

\* the frames written so far are frame_00000, frame_00001, ... and frame i is the
\* canvas that frame i of an export without a cap holds: the render of the tracks at
\* time i / fps with the options of the export
FramesAsUncapped ==
  \A k \in 1..Len(exporter.frames) :
    exporter.frames[k] =
      <<k - 1, <<"image/png", renderer.canvas.width, renderer.canvas.height,
                 FirstFrame(tracks, FrameArgsOf(exporter.options, k - 1))>> >>

\* C20: with maxFrames = m > 0 the export renders exactly min(ceil(duration * fps), m)
\* frames, with maxFrames absent or <= 0 exactly ceil(duration * fps); frame i is
\* rendered at time i / fps with the options of the export, as in an export without
\* a cap.
C20_FrameCap ==
  exporter.tempDir # <<>> =>
    /\ exporter.totalFrames = IF CapGiven THEN Min(ExactFrameCount, exporter.maxFrames[1])
                                          ELSE ExactFrameCount
    /\ FramesAsUncapped
    /\ exporter.pc \in {"mix", "encode", "done"} =>
         Len(exporter.frames) = exporter.totalFrames

\* the rest of C20, with the frame count of the export without a cap as the code
\* computes it: the number of frames is the smaller of that count and the cap, the
\* frames are the first ones of the export without a cap, and all of them are
\* written when the loop is left
CliCappedAsUncapped ==
  exporter.tempDir # <<>> =>
    LET uncapped == TotalFrames(exporter.duration, exporter.options.fps)
    IN /\ exporter.totalFrames = IF CapGiven THEN Min(uncapped, exporter.maxFrames[1])
                                             ELSE uncapped
       /\ FramesAsUncapped
       /\ Len(exporter.frames) <= exporter.totalFrames
       /\ exporter.pc \in {"mix", "encode", "done"} =>
            Len(exporter.frames) = exporter.totalFrames

\* the cap is applied once, before the first frame: the number of frames to render
\* never changes after the start
CliCapAppliedOnce ==
  [][exporter.pc # "idle" =>
       /\ exporter'.totalFrames = exporter.totalFrames
       /\ exporter'.maxFrames = exporter.maxFrames]_vars

(***************************************************************************)
(* Claims about the accumulation of the mix (SpecMix, SpecMixLength).      *)
(***************************************************************************)
\* ceil(max track duration * sampleRate) in exact arithmetic: the least n with
\* n / sampleRate >= length / rate for every track, sampleRate the first track's
ExactNumSamples ==
  LET covers(n) == \A k \in 1..Len(tracks) :
                     n * tracks[k].sampleRate >= BufferLength(tracks[k]) * tracks[1].sampleRate
  IN CHOOSE n \in 0..(MaxLen * tracks[1].sampleRate) :
       covers(n) /\ (n = 0 \/ ~covers(n - 1))

\* the accumulators before normalisation hold, at every index of the output, the sum
\* over all tracks of the sample at that index times the opacity
MixAccumulatesEveryTrack ==
  (mixed # <<>> /\ tracks # <<>>) =>
    \A side \in Sides : \A i \in 1..Len(Mixed.left) :
      Accumulated(tracks, Len(tracks), side, i, Len(Mixed.left)) = UnscaledSum(side, i)

\* C21: the mix has ceil(max track duration * sampleRate) stereo samples, and before
\* normalization left[i] and right[i] are the sums over all tracks of channel0[i] *
\* opacity and channel1[i] * opacity (channel0 again for a mono track), a track
\* contributing 0 beyond its own length; no sample within the output is dropped.
C21_MixAccumulation ==
  (mixed # <<>> /\ tracks # <<>>) =>
    /\ Len(Mixed.left) = ExactNumSamples
    /\ Len(Mixed.right) = ExactNumSamples
    /\ MixAccumulatesEveryTrack

(***************************************************************************)
(* Claims about the WAV encoders (SpecWav).                                *)
(***************************************************************************)
WavBytes == wav[1].bytes

\* the unsigned little-endian number in the k bytes from offset
UIntAt(bytes, offset, k) ==
  LET upTo[j \in 0..k] == IF j = 0 THEN 0 ELSE upTo[j - 1] * 256 + bytes[offset + k - j + 1]
  IN upTo[k]

Int16At(bytes, offset) ==
  LET u == UIntAt(bytes, offset, 2) IN IF u >= 32768 THEN u - 65536 ELSE u

\* v is the sample scaled to 16 bits after clamping to [-1, 1]: at full scale for a
\* sample at or beyond it, within two steps of sample * 32767 otherwise
ClampedPcm(v, sample) ==
  /\ v \in -32768..32767
  /\ IF sample[1] >= sample[2] THEN v = 32767
     ELSE IF sample[1] <= -sample[2] THEN v \in {-32768, -32767}
     ELSE /\ (v - 2) * sample[2] < 32767 * sample[1]
          /\ 32767 * sample[1] < (v + 2) * sample[2]

\* C22: for every input sample value, including values outside [-1,1], the 16-bit
\* value written by the WAV encoders is an integer in [-32768, 32767], the sample
\* clamped to [-1,1] before scaling; the output is a 44-byte header followed by
\* exactly 4 bytes per stereo frame, left then right, with the header's data size
\* 4 * numSamples and RIFF size the total length - 8.
C22_PcmEncoding ==
  wav # <<>> =>
    LET numSamples == Len(mixed[1].left)
    IN /\ wav[1].error = ""
       /\ Len(WavBytes) = 44 + 4 * numSamples
       /\ SubSeq(WavBytes, 1, 4) = Riff
       /\ UIntAt(WavBytes, 4, 4) = Len(WavBytes) - 8
       /\ SubSeq(WavBytes, 37, 40) = Data
       /\ UIntAt(WavBytes, 40, 4) = 4 * numSamples
       /\ \A i \in 1..numSamples :
            /\ ClampedPcm(Int16At(WavBytes, 44 + 4 * (i - 1)), mixed[1].left[i])
            /\ ClampedPcm(Int16At(WavBytes, 46 + 4 * (i - 1)), mixed[1].right[i])

\* an encoder was given two frames with a sample above 1.0 on the left of the first
\* and a sample below -1.0 on the right of the second, and wrote both at full scale
C22_Witness ==
  /\ wav # <<>> /\ wav[1].error = ""
  /\ Len(mixed[1].left) = 2
  /\ RLess(<<1, 1>>, mixed[1].left[1]) /\ RLess(mixed[1].right[2], <<-1, 1>>)
  /\ Int16At(WavBytes, 44) = 32767
  /\ Int16At(WavBytes, 50) \in {-32768, -32767}
  /\ Len(WavBytes) = 52

(***************************************************************************)
(* Claims about the render loop (SpecLoop).                                *)
(***************************************************************************)
\* the target rate is within [15, 60] and frameInterval is 1000 / target
TargetClamped ==
  /\ Loop.obj.targetFPS \in 15..60
  /\ Loop.obj.frameInterval * Loop.obj.targetFPS = LoopTicksPerSecond

\* since the last start(), the target unchanged: lastFrameTime is the start time plus
\* a whole number of frame intervals, not later than now, and the callback ran at
\* most floor(T / frameInterval) times in the T ticks since the start
CadenceSinceStart ==
  (Loop.obj.isRunning /\ Loop.steady) =>
    /\ Loop.obj.lastFrameTime <= Loop.now
    /\ Loop.obj.lastFrameTime >= Loop.startTime
    /\ (Loop.obj.lastFrameTime - Loop.startTime) % Loop.obj.frameInterval = 0
    /\ Loop.calls <= (Loop.now - Loop.startTime) \div Loop.obj.frameInterval

\* the callback runs only when now - lastFrameTime >= frameInterval
CallbackGated ==
  (loop'[1].calls = Loop.calls + 1) =>
    /\ Loop.obj.isRunning
    /\ Loop.now - Loop.obj.lastFrameTime >= Loop.obj.frameInterval

CliSettled == exporter.pc \in {"done", "failed"}

LogHas(kind) == \E k \in 1..Len(log) : log[k][1] = kind

\* C24: on every exit of export() after the temporary frame directory was created,
\* normal completion or an exception thrown by frame rendering, audio mixing or
\* encoding, removal of that directory is attempted before export() settles; and a
\* failure in frame rendering or mixing aborts the export so that encoding is never
\* started.
C24_CleanupOnEveryExit ==
  /\ (CliSettled /\ exporter.tempDir # <<>>) =>
       /\ log[Len(log)][1] = "rm"
       /\ log[Len(log)][2] = exporter.tempDir[1]
       /\ Cardinality({ k \in 1..Len(log) : log[k][1] = "rm" }) = 1
  /\ (exporter.thrown # <<>> /\ exporter.thrown[1] \in {"renderFrames", "mixAudio"}) =>
       /\ ~LogHas("encode")
       /\ exporter.encoded = 0
       /\ exporter.pc \in {"finally", "failed"}
  /\ (exporter.pc = "done") => exporter.thrown = <<>>

\* an export that failed while writing its third frame: the directory with the two
\* frames written was removed, FFmpeg never ran and export() rejected
C24_Witness ==
  /\ exporter.pc = "failed"
  /\ exporter.thrown = <<"renderFrames">>
  /\ Len(exporter.frames) = 2
  /\ exporter.totalFrames > 2
  /\ log[Len(log)][1] = "rm"
  /\ ~LogHas("encode")

(***************************************************************************)
(* Claims about the export command (SpecCli).                              *)
(***************************************************************************)
Passed == Cli.passed[1]

\* C25: every ExportOptions value that the CLI passes to the exporter satisfies
\* heightPercent in [1,100], smoothingLevel in [0,5], windowDuration > 0, a known
\* layout and amplitude mode, fps in [1,120] and quality in [0,51], for every
\* combination of config file, preset and command-line flags; an input violating a
\* range is rejected with an error before any frame is rendered.
C25_OptionsValidated ==
  (Cli.ran /\ Cli.passed # <<>>) =>
    /\ Passed.options.heightPercent \in 1..100
    /\ Passed.options.smoothingLevel \in 0..5
    /\ Passed.options.windowDuration > 0
    /\ Passed.options.layout \in ValidLayouts
    /\ Passed.options.amplitudeMode \in ValidAmplitudeModes
    /\ Passed.options.fps \in 1..120
    /\ Passed.options.quality \in 0..51

\* the part of C25 that the code keeps: what a config file alone sets is validated
FileAloneValidated ==
  (Cli.ran /\ Cli.passed # <<>> /\ Cli.file # <<>>
     /\ GivenCount(Cli.flags, CountedFlags) = 0) => C25_OptionsValidated

\* what the caller chose for a setting of the export section: the flag when it was
\* given, otherwise the value of the config file, <<>> when there is neither
Chosen(flag, setting) ==
  IF Cli.flags[flag] # <<>> THEN Cli.flags[flag]
  ELSE IF Cli.file # <<>> THEN Cli.file[1].export[setting] ELSE <<>>

CodecPassedThrough ==
  LET chosen == Chosen("codec", "codec")
  IN Passed.encoder.videoCodec =
       IF chosen = <<>> THEN "libx264"
       ELSE IF chosen[1] = "h265" THEN "libx265" ELSE "libx264"

AudioBitratePassedThrough ==
  LET chosen == Chosen("audioBitrate", "audioBitrate")
  IN Passed.encoder.audioBitrate = IF chosen = <<>> THEN "192k" ELSE chosen[1]

QualityPassedThrough ==
  LET chosen == Chosen("quality", "quality")
  IN /\ chosen = <<>> => Passed.encoder.crf = 23
     /\ (chosen # <<>> /\ chosen[1] \in 0..51) => Passed.encoder.crf = chosen[1]

\* C26: the codec, quality (CRF) and audio bitrate chosen by the caller (config file
\* export section or command-line flag) reach the encoder invocation unchanged for
\* every valid value, including quality 0; a default is used only when the caller
\* gave no value.
C26_EncoderPassThrough ==
  (Cli.ran /\ Cli.passed # <<>>) =>
    /\ CodecPassedThrough
    /\ AudioBitratePassedThrough
    /\ QualityPassedThrough

\* the part of C26 that the code keeps: the codec and the audio bitrate always, and
\* the quality unless the caller chose 0
PassThroughButQualityZero ==
  (Cli.ran /\ Cli.passed # <<>>) =>
    /\ CodecPassedThrough
    /\ AudioBitratePassedThrough
    /\ (Cli.flags.quality # <<0>> /\ (Cli.file = <<>> \/ Cli.file[1].export.quality # <<0>>))
         => QualityPassedThrough

FinalConfig == Cli.config[1]

\* the flag's value if the flag was given, otherwise the config file's
FlagElseFile(flag, fileValue) == IF Cli.flags[flag] # <<>> THEN Cli.flags[flag] ELSE fileValue

VisualizationTakesFlags ==
  LET file == Cli.file[1]
  IN /\ FinalConfig.overrides.layout = FlagElseFile("layout", file.overrides.layout)
     /\ FinalConfig.overrides.amplitudeMode
          = FlagElseFile("amplitudeMode", file.overrides.amplitudeMode)
     /\ FinalConfig.overrides.heightPercent = FlagElseFile("height", file.overrides.heightPercent)
     /\ FinalConfig.overrides.smoothingLevel
          = FlagElseFile("smoothing", file.overrides.smoothingLevel)
     /\ FinalConfig.overrides.windowDuration
          = FlagElseFile("windowDuration", file.overrides.windowDuration)

ExportTakesFlags ==
  LET file == Cli.file[1]
  IN /\ FinalConfig.export.fps = FlagElseFile("fps", file.export.fps)
     /\ FinalConfig.export.codec = FlagElseFile("codec", file.export.codec)
     /\ FinalConfig.export.quality = FlagElseFile("quality", file.export.quality)
     /\ FinalConfig.export.audioBitrate = FlagElseFile("audioBitrate", file.export.audioBitrate)

\* C27: when the CLI is run with a config file, each setting (audio files, preset,
\* output path, verbose, layout, amplitude mode, height, smoothing, window duration,
\* fps, codec, quality, audio bitrate) takes the command-line value if and only if
\* that flag was given on the command line, and otherwise keeps the value from the
\* config file.
C27_OverridePrecedence ==
  (Cli.ran /\ Cli.file # <<>> /\ Cli.config # <<>>) =>
    LET file == Cli.file[1]
    IN /\ FinalConfig.audioFiles = FlagElseFile("audio", file.audioFiles)
       /\ FinalConfig.preset = FlagElseFile("preset", file.preset)
       /\ FinalConfig.output = FlagElseFile("output", file.output)
       /\ OrDefined(FinalConfig.verbose, <<FALSE>>)
            = OrDefined(FlagElseFile("verbose", file.verbose), <<FALSE>>)
       /\ VisualizationTakesFlags
       /\ ExportTakesFlags

\* the part of C27 that the code keeps: the audio files, the preset and every
\* visualization and export setting whose flag is not 0
PrecedenceButDefaultsAndZero ==
  (Cli.ran /\ Cli.file # <<>> /\ Cli.config # <<>>
     /\ \A flag \in {"height", "fps", "quality"} : Cli.flags[flag] # <<0>>) =>
    /\ FinalConfig.audioFiles = FlagElseFile("audio", Cli.file[1].audioFiles)
    /\ FinalConfig.preset = FlagElseFile("preset", Cli.file[1].preset)
    /\ VisualizationTakesFlags
    /\ ExportTakesFlags

(***************************************************************************)
(* C28.  Removing a track releases its playback resources.                 *)
(***************************************************************************)
\* the track objects that removeTrack took out of the array
RemovedTracks(e) ==
  { id \in 1..Len(e.objs) : \A k \in 1..Len(e.tracks) : e.tracks[k] # id }

\* a removed track is not in the array, refers to no source node and to no gain
\* node, its gain node is disconnected and every source node that was created
\* for it is stopped and disconnected
RemovedTrackReleased ==
  engine # <<>> =>
    \A id \in RemovedTracks(Engine) :
      /\ Engine.objs[id].sourceNode = <<>>
      /\ Engine.objs[id].gainNode = <<>>
      /\ ~Engine.gains[id]
      /\ \A s \in 1..Len(Engine.sources) :
           Engine.sources[s].track = id =>
             Engine.sources[s].stopped /\ ~Engine.sources[s].connected

\* a step that delivers the ended event of a source node of a removed track
\* leaves isPlaying and pausedAt as they are and dispatches no 'ended'
RemovedSourceSilent ==
  (engine # <<>> /\ engine' # <<>>) =>
    \A s \in 1..Len(Engine.sources) :
      (/\ Engine.sources[s].track \in RemovedTracks(Engine)
       /\ ~Engine.sources[s].ended
       /\ engine' = <<OnEnded(Calling(Engine), s)>>)
      => /\ engine'[1].isPlaying = Engine.isPlaying
         /\ engine'[1].pausedAt = Engine.pausedAt
         /\ \A k \in 1..Len(engine'[1].events) : engine'[1].events[k] # "ended"

\* C28: after removeTrack(id) of a track of the array, in any playback state,
\* the track is not in the array, its source node (if any) is stopped and
\* disconnected, its gain node is disconnected, both references are cleared,
\* and no later ended-callback of a source of that track changes isPlaying or
\* pausedAt or dispatches 'ended'
C28_RemoveTrackReleases == [](RemovedTrackReleased) /\ [][RemovedSourceSilent]_vars

\* a track was removed while the engine was playing it, the ended event of its
\* source node has been delivered at the end of the playback, and the engine
\* still plays
C28_Witness ==
  /\ engine # <<>>
  /\ Engine.isPlaying
  /\ Engine.tracks # <<>>
  /\ 10 * GetCurrentTime(Engine) >= 10 * EngineDuration(Engine) - EngineTicksPerSecond
  /\ \E s \in 1..Len(Engine.sources) :
       /\ Engine.sources[s].track \in RemovedTracks(Engine)
       /\ Engine.sources[s].ended

(***************************************************************************)
(* C30.  Seek keeps the playback state.                                    *)
(***************************************************************************)
\* the source node of the track of id `id' after the step is one the step
\* created, playing from `offset' since the present instant
RestartedAt(id, offset) ==
  LET ref == engine'[1].objs[id].sourceNode
  IN  /\ ref # <<>>
      /\ ref[1] > Len(Engine.sources)
      /\ engine'[1].sources[ref[1]] =
           [track |-> id, offset |-> offset, startedAt |-> Engine.currentTime,
            stopped |-> FALSE, connected |-> TRUE, ended |-> FALSE]

\* what a step seek(time) leaves, given at least one track
SeekKeepsState(time) ==
  LET position == Max(0, Min(time, EngineDuration(Engine)))
      after == engine'[1]
  IN  /\ after.isPlaying = Engine.isPlaying
      /\ GetCurrentTime(after) = position
      /\ Engine.isPlaying =>
           /\ \A k \in 1..Len(after.tracks) : RestartedAt(after.tracks[k], position)
           /\ \A j, k \in 1..Len(after.tracks) :
                j # k => after.objs[after.tracks[j]].sourceNode
                           # after.objs[after.tracks[k]].sourceNode
           /\ \A s \in 1..Len(Engine.sources) : after.sources[s].stopped

SeekPreserves ==
  (engine # <<>> /\ engine' # <<>>) =>
    \A time \in SeekTimes :
      (Engine.tracks # <<>> /\ engine' = <<SeekEngine(Calling(Engine), time)>>)
        => SeekKeepsState(time)

LastOpacityCall(k) ==
  LET calls == SelectSeq(log, LAMBDA entry : entry[2] = k)
  IN  calls[Len(calls)]

\* the opacity a track has is the argument of its construction, or the clamped
\* argument of the last setOpacity since
OpacityAsLastCall ==
  \A k \in 1..Len(tracks) :
    LET last == LastOpacityCall(k)
    IN  tracks[k].opacity = IF last[1] = "setOpacity"
                            THEN Max(0, Min(100, last[3]))
                            ELSE last[3]

\* C29: the opacity of every track is within [0, 1] (0..100 percent) after its
\* construction with any opacity argument and after any sequence of setOpacity
\* calls, and setOpacity(v) stores max(0, min(1, v))
C29_OpacityInRange ==
  /\ \A k \in 1..Len(tracks) : tracks[k].opacity >= 0 /\ tracks[k].opacity <= 100
  /\ OpacityAsLastCall

\* what the code keeps: a track's opacity is within [0, 1] once setOpacity was
\* called on it or when it was constructed with an argument within [0, 1], and
\* setOpacity(v) stores max(0, min(1, v))
OpacityInRangeOnceSet ==
  /\ OpacityAsLastCall
  /\ \A k \in 1..Len(tracks) :
       LET last == LastOpacityCall(k)
       IN  (last[1] = "setOpacity" \/ (last[3] >= 0 /\ last[3] <= 100))
             => (tracks[k].opacity >= 0 /\ tracks[k].opacity <= 100)

(***************************************************************************)
(* C31.  Track-end detection.                                              *)
(***************************************************************************)
\* the step delivers the ended event of source s
DeliversEnded(s) ==
  /\ ~Engine.sources[s].ended
  /\ engine' = <<OnEnded(Calling(Engine), s)>>

\* the step ends playback: isPlaying or pausedAt changes, or 'ended' is dispatched
EndsPlayback ==
  \/ engine'[1].isPlaying # Engine.isPlaying
  \/ engine'[1].pausedAt # Engine.pausedAt
  \/ \E k \in 1..Len(engine'[1].events) : engine'[1].events[k] = "ended"

\* the callback of a stopped source never ends playback; a callback that does
\* is the one of the source its track refers to, run while playing at the end
EndedOnlyByCurrentSource ==
  (engine # <<>> /\ engine' # <<>>) =>
    \A s \in 1..Len(Engine.sources) :
      DeliversEnded(s) =>
        /\ Engine.sources[s].stopped => ~EndsPlayback
        /\ EndsPlayback =>
             /\ Engine.isPlaying
             /\ Engine.objs[Engine.sources[s].track].sourceNode = <<s>>
             /\ 10 * GetCurrentTime(Engine)
                  >= 10 * EngineDuration(Engine) - EngineTicksPerSecond
             /\ ~engine'[1].isPlaying
             /\ engine'[1].pausedAt = EngineDuration(Engine)

\* C31: the ended-callback of a source node stopped by pause(), seek(), a restart
\* in play() or removeTrack() never sets isPlaying to false, never changes
\* pausedAt and never dispatches 'ended', however it interleaves with later
\* calls; only the callback of a track's current source, while playing and with
\* currentTime >= duration - 0.1, ends playback
C31_TrackEndDetection == [][EndedOnlyByCurrentSource]_vars

\* the ended event of a source that seek stopped has been delivered after the
\* restarted playback reached the end, and the engine still plays
C31_Witness ==
  /\ engine # <<>>
  /\ Engine.isPlaying
  /\ Engine.tracks # <<>>
  /\ 10 * GetCurrentTime(Engine) >= 10 * EngineDuration(Engine) - EngineTicksPerSecond
  /\ \E s \in 1..Len(Engine.sources) :
       /\ Engine.sources[s].stopped
       /\ Engine.sources[s].ended
       /\ Engine.sources[s].track \notin RemovedTracks(Engine)
       /\ Engine.objs[Engine.sources[s].track].sourceNode # <<>>

(***************************************************************************)
(* C37.  The playback time lies within the duration.                       *)
(***************************************************************************)
\* C37: in every state of the engine reachable by loadTrack, removeTrack, play,
\* pause, seek, ended-callbacks and advances of the audio clock,
\* 0 <= getCurrentTime() <= getDuration()
C37_PlaybackTimeRange ==
  engine # <<>> =>
    /\ 0 <= GetCurrentTime(Engine)
    /\ GetCurrentTime(Engine) <= EngineDuration(Engine)

\* what the code keeps: the time is never negative, and it is within the
\* duration while the engine plays
TimeInRangeWhilePlaying ==
  engine # <<>> =>
    /\ 0 <= GetCurrentTime(Engine)
    /\ Engine.isPlaying => GetCurrentTime(Engine) <= EngineDuration(Engine)

\* what the code keeps: the time is within the duration right after seek()
\* and right after the playback ended
TimeInRangeAfterSeek ==
  (engine # <<>> /\ Engine.events # <<>>
     /\ (Engine.events[1] = "seek" \/ Engine.events[1] = "ended"))
    => GetCurrentTime(Engine) <= EngineDuration(Engine)

(***************************************************************************)
(* C38.  A playback that is left to run ends.                              *)
(***************************************************************************)
\* the playback has ended: not playing, at the end, 'ended' dispatched
PlaybackEnded ==
  /\ ~Engine.isPlaying
  /\ Engine.pausedAt = EngineDuration(Engine)
  /\ \E k \in 1..Len(Engine.events) : Engine.events[k] = "ended"

\* 'ended' is dispatched by a step that ends the playback, so once for it
EndedOncePerPlayback ==
  (\E k \in 1..Len(engine'[1].events) : engine'[1].events[k] = "ended")
    => (Engine.isPlaying /\ ~engine'[1].isPlaying)

\* C38: once play() has started playback, with no pause(), seek() or destroy()
\* afterwards and every ended-callback delivered, eventually isPlaying is false
\* with pausedAt = duration and 'ended' dispatched, exactly once for that
\* playback, also when tracks are loaded or removed while playing
C38_PlaybackEnds ==
  /\ Engine.isPlaying ~> PlaybackEnded
  /\ [][EndedOncePerPlayback]_vars

\* play() has just started the playback
PlaybackStarted ==
  Engine.isPlaying /\ Engine.events = <<"play", "timeupdate">>

\* a track was loaded or removed while the engine plays
TracksChangedWhilePlaying ==
  /\ Engine.isPlaying
  /\ Engine.events = <<"trackadded">> \/ Engine.events = <<"trackremoved">>

\* what the code keeps: the playback ends, with 'ended' dispatched once, unless
\* a track is loaded or removed while it plays
PlaybackEndsUnlessTracksChange ==
  /\ PlaybackStarted ~> (PlaybackEnded \/ TracksChangedWhilePlaying)
  /\ [][EndedOncePerPlayback]_vars

\* a playback of two tracks has ended
PlaybackOfTwoEnded ==
  PlaybackEnded /\ Len(Engine.tracks) = 2 /\ Len(Engine.sources) = 2

(***************************************************************************)
(* C32: a failed preset operation changes nothing.  updatePreset,          *)
(* renamePreset, deletePreset, loadPreset and exportPreset with an id that *)
(* no preset of the collection has throw 'Preset not found'; importPresets *)
(* with a string that is not JSON, or with any element that is not a valid *)
(* preset, throws 'Failed to import presets'; and the step of such a call  *)
(* leaves the presets, activePresetId and the stored data as they were.    *)
(***************************************************************************)
OperationsByKey ==
  {"updatePreset", "renamePreset", "deletePreset", "loadPreset", "exportPreset"}

\* the call of this step was given an id no preset has
KeyNotFound ==
  /\ Manager'.last.op \in OperationsByKey
  /\ Manager'.last.presetId \notin PresetIds(Manager.collection)

\* the call of this step was given a string importPresets cannot take
InvalidImport ==
  /\ Manager'.last.op = "importPresets"
  /\ \/ ~Manager'.last.input[1].syntax
     \/ \E k \in 1..Len(Manager'.last.input[1].data) :
          ~IsValidPreset(ParseElements(Manager'.last.input[1])[k])

NothingChanged ==
  /\ Manager'.collection = Manager.collection
  /\ Manager'.storage = Manager.storage

FailedCallChangesNothing ==
  /\ KeyNotFound => Manager'.last.thrown = "Preset not found" /\ NothingChanged
  /\ InvalidImport =>
       /\ Manager'.last.thrown \in
            {"Failed to import presets: Unexpected token",
             "Failed to import presets: Invalid preset structure"}
       /\ NothingChanged

C32_FailedOperationsChangeNothing == [][FailedCallChangesNothing]_vars

\* an import of a valid preset followed by an invalid one has thrown, with
\* a preset in the collection and one active; and a call by a missing id
C32_Witness ==
  /\ Manager.last.op = "importPresets"
  /\ Manager.last.thrown = "Failed to import presets: Invalid preset structure"
  /\ Len(Manager.last.input[1].data) = 2
  /\ IsValidPreset(ParseElements(Manager.last.input[1])[1])
  /\ Manager.collection.presets # <<>>
  /\ Manager.collection.activePresetId # <<>>
  /\ Manager.storage # <<>>

(***************************************************************************)
(* C33: the active preset is valid.  In every state reached from an empty  *)
(* storage activePresetId is null or the id of a preset of the collection; *)
(* deletePreset of the active preset sets it to null, and deletePreset of  *)
(* any other preset leaves it as it was.                                   *)
(***************************************************************************)
ActivePresetValid ==
  \/ Manager.collection.activePresetId = <<>>
  \/ Manager.collection.activePresetId[1] \in PresetIds(Manager.collection)

\* the call of this step deleted a preset of the collection
DeletedPreset ==
  /\ Manager'.last.op = "deletePreset"
  /\ Manager'.last.presetId \in PresetIds(Manager.collection)

DeleteClearsOnlyActive ==
  DeletedPreset =>
    /\ Manager'.last.presetId \notin PresetIds(Manager'.collection)
    /\ Manager'.collection.activePresetId =
         IF Manager.collection.activePresetId = <<Manager'.last.presetId>>
         THEN <<>> ELSE Manager.collection.activePresetId

C33_ActivePresetValid == []ActivePresetValid /\ [][DeleteClearsOnlyActive]_vars

\* the active preset has been deleted: the storage, which the failed save of
\* the call left as it was, still names it as the active one
C33_Witness ==
  /\ Manager.last.op = "deletePreset"
  /\ Manager.last.thrown = "Failed to save presets"
  /\ Manager.storage # <<>>
  /\ Manager.storage[1].activePresetId = <<Manager.last.presetId>>
  /\ Manager.collection.activePresetId = <<>>

\* a preset other than the active one has been deleted
ActiveSurvivesDelete ==
  /\ Manager.last.op = "deletePreset"
  /\ Manager.last.thrown = ""
  /\ Manager.collection.activePresetId # <<>>

(***************************************************************************)
(* C34: every preset importPresets adds has a newly generated id, not the  *)
(* id of the JSON, and a name no preset of the collection has at the       *)
(* moment it is added, presets added earlier in the same import included:  *)
(* the name of the JSON if it is free, otherwise 'name (n)' for the        *)
(* smallest n >= 1 that is free; its settings are those of the JSON.       *)
(***************************************************************************)
\* the collection at the moment the k-th preset of the last import was added
BeforeImported(k) ==
  [Manager.collection EXCEPT !.presets =
     SubSeq(@, 1, Len(@) - Len(Manager.last.returned) + k - 1)]

\* the k-th preset the last import added, as the collection has it
Imported(k) ==
  Manager.collection.presets[
    Len(Manager.collection.presets) - Len(Manager.last.returned) + k]

ImportedFrom(k) == ParseElements(Manager.last.input[1])[k]

NameIsFree(k, name) == name \notin PresetNames(BeforeImported(k))

ImportedAsClaimed(k) ==
  /\ Imported(k) = Manager.last.returned[k]
  /\ Imported(k).id # ImportedFrom(k).id
  /\ Imported(k).id \notin PresetIds(BeforeImported(k))
  /\ NameIsFree(k, Imported(k).name)
  /\ IF NameIsFree(k, ImportedFrom(k).name[2])
     THEN Imported(k).name = ImportedFrom(k).name[2]
     ELSE \E n \in 1..(Len(Manager.collection.presets) + 1) :
            /\ Imported(k).name = Append(ImportedFrom(k).name[2], n)
            /\ \A m \in 1..(n - 1) :
                 ~NameIsFree(k, Append(ImportedFrom(k).name[2], m))
  /\ Imported(k).settings = ImportedFrom(k).settings

C34_ImportNaming ==
  (Manager.last.op = "importPresets" /\ Manager.last.returned # <<>>) =>
    /\ Len(Manager.last.returned) = Len(Manager.last.input[1].data)
    /\ \A k \in 1..Len(Manager.last.returned) : ImportedAsClaimed(k)

\* 'A' was imported into a collection that had 'A' and 'A (1)': it is 'A (2)'
C34_Witness ==
  /\ Manager.last.op = "importPresets"
  /\ Manager.last.thrown = ""
  /\ Manager.last.returned # <<>>
  /\ Manager.last.returned[Len(Manager.last.returned)].name = <<"A", 2>>
  /\ Manager.last.input[1].data[1].id \in PresetIds(Manager.collection)

(***************************************************************************)
(* C35: persistence round trip.  After any sequence of createPreset,       *)
(* updatePreset, renamePreset, deletePreset, loadPreset, importPresets and *)
(* clearActivePreset calls that all succeeded, a new PresetManager over    *)
(* the same storage has the same presets, in the same order with the same  *)
(* ids, names and settings, and the same activePresetId.                   *)
(***************************************************************************)
StoredEqualsMemory == LoadFromStorage(Manager.storage) = Manager.collection

C35_PersistenceRoundTrip == ~Manager.failed => StoredEqualsMemory

\* every number of the settings of every preset is finite
FiniteSettings ==
  \A k \in 1..Len(Manager.collection.presets) :
    \A f \in SettingsFields :
      Manager.collection.presets[k].settings[f][1] \in {"string", "number"}

\* the round trip holds after a successful call whenever the numbers of the
\* settings are finite, earlier failed saves notwithstanding
RoundTripOfFiniteSettings ==
  ( /\ Manager.last.op \notin {"new", "exportPreset"}
    /\ Manager.last.thrown = ""
    /\ FiniteSettings ) => StoredEqualsMemory

\* a collection of two presets, one active, is stored as it is in memory
StoredTwoPresets ==
  /\ ~Manager.failed
  /\ Len(Manager.collection.presets) = 2
  /\ Manager.collection.activePresetId # <<>>
  /\ FiniteSettings
  /\ StoredEqualsMemory

(***************************************************************************)
(* C36: bucket partition.  For a window of S > 0 samples and a targetWidth *)
(* W >= 1 the W buckets are contiguous and do not overlap, and their union *)
(* is [startSample, endSample): the first starts at startSample, each ends *)
(* where the next starts, the last ends at endSample; with smoothingLevel  *)
(* 0 the maximum of the buffer is the largest absolute sample of the       *)
(* window.                                                                 *)
(***************************************************************************)
CallBucketStart(i) ==
  BucketStart(CallStart, CallEnd - CallStart, Args.targetWidth, i)

CallBucketEnd(i) ==
  BucketEnd(CallStart, CallEnd, CallEnd - CallStart, Args.targetWidth, i)

\* each bucket is an interval and ends where the next one starts
BucketsContiguous ==
  /\ CallBucketStart(0) = CallStart
  /\ \A i \in 0..(Args.targetWidth - 1) :
       /\ CallBucketStart(i) <= CallBucketEnd(i)
       /\ CallBucketEnd(i) <= CallEnd
  /\ \A i \in 0..(Args.targetWidth - 2) : CallBucketEnd(i) = CallBucketStart(i + 1)

BucketsCoverWindow == CallBucketEnd(Args.targetWidth - 1) = CallEnd

WindowPeak ==
  SetMax({ Abs(track.channels[1][j + 1]) : j \in CallStart..(CallEnd - 1) })

BufferPeak == SetMax({ waveform[i] : i \in 1..Len(waveform) })

NoTransientDropped ==
  Args.smoothingLevel = 0 => BufferPeak * FullScale = WindowPeak * WaveUnit

C36_BucketPartition ==
  (Called /\ CallEnd - CallStart > 0) =>
    BucketsContiguous /\ BucketsCoverWindow /\ NoTransientDropped

\* the buckets are contiguous for every window, and are a partition that
\* drops no transient whenever the last boundary, floor(W * (S / W)), is S
PartitionUnlessLastBoundaryRounded ==
  (Called /\ CallEnd - CallStart > 0) =>
    /\ BucketsContiguous
    /\ FloorMulQuot(Args.targetWidth, CallEnd - CallStart, Args.targetWidth)
         = CallEnd - CallStart
       => BucketsCoverWindow /\ NoTransientDropped

\* a window of 15 samples in 11 buckets whose last sample is in no bucket
LastSampleInNoBucket ==
  /\ Called /\ CallEnd - CallStart > 0
  /\ Args.smoothingLevel = 0
  /\ CallBucketEnd(Args.targetWidth - 1) < CallEnd
  /\ BufferPeak = 0 /\ WindowPeak = FullScale

\* a window of more samples than buckets, partitioned, with its peak kept
PartitionedWindow ==
  /\ Called /\ CallEnd - CallStart > Args.targetWidth
  /\ Args.targetWidth > 1
  /\ Args.smoothingLevel = 0
  /\ BucketsCoverWindow
  /\ BufferPeak = WaveUnit

(***************************************************************************)
(* C39: single-flight export.  At most one export of the page is in        *)
(* progress at any time: startExport called while isExporting is true      *)
(* starts nothing, and export() is called only when none is in progress.   *)
(* After every export, completed or failed at any stage, isExporting is    *)
(* false again and the export button is enabled exactly when at least one  *)
(* track is loaded.                                                        *)
(***************************************************************************)
\* this step is a call of startExport
StartExportCalled == UI'.startCalls = UI.startCalls + 1

SingleFlight ==
  StartExportCalled =>
    IF UI.isExporting \/ Exporting
    THEN UI' = [UI EXCEPT !.startCalls = @ + 1]
    ELSE UI'.exports = UI.exports + 1

ButtonFollowsTracks == UI.disabled = (UI.trackCount = 0)

\* while an export is in progress the flag is set and the button disabled;
\* once it has settled the flag is clear and the button follows the tracks
FlagFollowsExport ==
  /\ Exporting => UI.isExporting /\ UI.disabled
  /\ UI.pc = "settled" => ~UI.isExporting /\ ButtonFollowsTracks

ExportIsOver == UI.isExporting ~> ~UI.isExporting

C39_SingleFlightExport ==
  [][SingleFlight]_vars /\ []FlagFollowsExport /\ ExportIsOver

\* the worker crashed while the export waits for the encoding
CrashedWhileEncoding ==
  /\ UI.pc = "encodeVideo"
  /\ TheWorker.pc = "crashed"

\* everything of the claim but the end of an export whose worker crashed
\* while encoding
SingleFlightUnlessWorkerCrashes ==
  /\ [][SingleFlight]_vars
  /\ []FlagFollowsExport
  /\ UI.isExporting ~> (~UI.isExporting \/ CrashedWhileEncoding)

\* startExport has been called during an export, which goes on
StartIgnored ==
  /\ Exporting
  /\ UI.startCalls > UI.exports
  /\ UI.exports = 1

\* a second export has completed, with a track loaded and the button enabled
SecondExportCompleted ==
  /\ UI.pc = "settled"
  /\ UI.exports = 2
  /\ UI.onCompleteCalls = 1
  /\ UI.trackCount > 0 /\ ~UI.disabled

\* the export is stuck: the flag is set for ever
StuckExporting ==
  /\ CrashedWhileEncoding
  /\ TheWorker.outbox = <<>>
  /\ UI.isExporting /\ UI.disabled

(***************************************************************************)
(* C40: export termination.  Every call of VideoExporter.export settles,   *)
(* and when it has, exactly one of onComplete and onError has been called, *)
(* once, and the worker has been terminated: whether the export succeeds   *)
(* or fails at the SharedArrayBuffer check, at the initialisation of the   *)
(* worker, at the frame capture, at the audio mix or at the encoding, a    *)
(* worker that raises its error event while encoding included.             *)
(***************************************************************************)
WorkerTerminated ==
  /\ ~UI.workerRef
  /\ UI.worker = <<>> \/ TheWorker.pc = "terminated"

SettledAsClaimed ==
  UI.pc = "settled" =>
    /\ UI.onCompleteCalls + UI.onErrorCalls = 1
    /\ WorkerTerminated

ExportSettles == Exporting ~> UI.pc = "settled"

C40_ExportTermination == ExportSettles /\ []SettledAsClaimed

\* the callbacks are called at most once in all, and only as the call ends
NoCallbackBeforeEnd ==
  Exporting => UI.onCompleteCalls = 0 /\ UI.onErrorCalls = 0

\* every export settles as claimed unless its worker crashed while encoding
ExportSettlesUnlessWorkerCrashes ==
  /\ Exporting ~> (UI.pc = "settled" \/ CrashedWhileEncoding)
  /\ []SettledAsClaimed
  /\ []NoCallbackBeforeEnd

\* an export failed at the frame capture: onError once, worker terminated
FailedAtCapture ==
  /\ UI.pc = "settled"
  /\ UI.onErrorCalls = 1 /\ UI.onCompleteCalls = 0
  /\ UI.message = ""
  /\ UI.totalFrames > 1 /\ UI.i > 0
  /\ UI.worker # <<>> /\ TheWorker.pc = "terminated"
  /\ TheWorker.onmessage = "initWorker"

====
